---- MODULE Spec2Model ----
(***************************************************************************)
(* A model of the BCZ compiler front end: the lexer (src/src/token.rs),    *)
(* the global separation pass, the dependency analysis and the code        *)
(* generation engine (src/src/ast_node.rs).                                *)
(*                                                                         *)
(* Each component has its own specification over its own variables; the    *)
(* variables of the other components stay at their idle values.            *)
(*   SpecLex     tokenize_from_line                                        *)
(*   SpecSep     separate_globals                                          *)
(*   SpecDeps    get_variable_dependencies                                 *)
(*   SpecGen     build_global_assignment over the globals of a unit        *)
(*   SpecFold    const_evaluate                                            *)
(*   SpecWidth   type_from_width                                           *)
(*   SpecTypes   const_evaluate, then the types of a link function         *)
(*   SpecLValue  build_l_value                                             *)
(***************************************************************************)
EXTENDS Integers, Sequences, FiniteSets, TLC

(***************************************************************************)
(* u64 values.  TLC's integers are 32 bits wide, so a u64 is kept exactly  *)
(* as four 16-bit limbs, least significant first.                          *)
(***************************************************************************)
Limb == 2^16

U64Zero == <<0, 0, 0, 0>>

U64Max == <<Limb - 1, Limb - 1, Limb - 1, Limb - 1>>

\* A small natural number (< 2^16) as a u64.
U64Of(n) == <<n, 0, 0, 0>>

\* Option<u64>
None == [some |-> FALSE, v |-> U64Zero]

Some(x) == [some |-> TRUE, v |-> x]

\* x * m + c over limbs of any length; the last element of the result is the
\* carry out of the top limb.
RECURSIVE MulAddLimbs(_, _, _)
MulAddLimbs(x, m, c) ==
  IF x = <<>> THEN <<c>>
  ELSE LET p == Head(x) * m + c
       IN  <<p % Limb>> \o MulAddLimbs(Tail(x), m, p \div Limb)

\* u64::wrapping_mul by a small factor: the carry out of bit 63 is dropped.
wrapping_mul(x, m) == SubSeq(MulAddLimbs(x, m, 0), 1, 4)

\* u64::checked_mul by a small factor.
checked_mul(x, m) ==
  LET r == MulAddLimbs(x, m, 0)
  IN  IF r[5] # 0 THEN None ELSE Some(SubSeq(r, 1, 4))

\* u64::checked_add of a small addend.
checked_add(x, d) ==
  LET r == MulAddLimbs(x, 1, d)
  IN  IF r[5] # 0 THEN None ELSE Some(SubSeq(r, 1, 4))

\* u64::wrapping_add of a small addend.
wrapping_add(x, d) == SubSeq(MulAddLimbs(x, 1, d), 1, 4)

\* x > y on u64, compared from the most significant limb down.
RECURSIVE GtFrom(_, _, _)
GtFrom(x, y, i) ==
  IF i = 0 THEN FALSE
  ELSE IF x[i] # y[i] THEN x[i] > y[i]
  ELSE GtFrom(x, y, i - 1)

U64Gt(x, y) == GtFrom(x, y, 4)

\* Bitwise operations on naturals below 2^n, by halves.
RECURSIVE BitsXor(_, _, _)
BitsXor(a, b, n) ==
  IF n = 1 THEN (a + b) % 2
  ELSE LET h == n \div 2
       IN  BitsXor(a % 2^h, b % 2^h, h)
             + 2^h * BitsXor(a \div 2^h, b \div 2^h, n - h)

RECURSIVE BitsAnd(_, _, _)
BitsAnd(a, b, n) ==
  IF n = 1 THEN (a % 2) * (b % 2)
  ELSE LET h == n \div 2
       IN  BitsAnd(a % 2^h, b % 2^h, h)
             + 2^h * BitsAnd(a \div 2^h, b \div 2^h, n - h)

\* ^ and & on u64
U64Xor(x, y) == [i \in 1..4 |-> BitsXor(x[i], y[i], 16)]

U64And(x, y) == [i \in 1..4 |-> BitsAnd(x[i], y[i], 16)]

(***************************************************************************)
(* MainData: the integer width of the target and the values derived from   *)
(* it.  The supported widths are the pointer widths up to 64 bits.         *)
(***************************************************************************)
IntBitWidths == {16, 32, 64}

\* 2^w - 1 for w a multiple of 16
int_max_value_of(w) == [i \in 1..4 |-> IF 16 * i <= w THEN Limb - 1 ELSE 0]

\* 2^(w-1)
sign_bit_mask_of(w) == [i \in 1..4 |-> IF 16 * i = w THEN Limb \div 2 ELSE 0]

MainData(w) ==
  [int_bit_width |-> w,
   int_max_value |-> int_max_value_of(w),
   sign_bit_mask |-> sign_bit_mask_of(w)]

(***************************************************************************)
(* Characters.  A line is a sequence of one-character strings (ASCII).     *)
(***************************************************************************)
Digits36 ==
  <<"0", "1", "2", "3", "4", "5", "6", "7", "8", "9",
    "a", "b", "c", "d", "e", "f", "g", "h", "i", "j", "k", "l", "m",
    "n", "o", "p", "q", "r", "s", "t", "u", "v", "w", "x", "y", "z">>

UpperLetters ==
  <<"A", "B", "C", "D", "E", "F", "G", "H", "I", "J", "K", "L", "M",
    "N", "O", "P", "Q", "R", "S", "T", "U", "V", "W", "X", "Y", "Z">>

Range(s) == {s[i] : i \in DOMAIN s}

is_ascii_digit(c) == c \in Range(SubSeq(Digits36, 1, 10))

is_ascii_alphabetic(c) ==
  c \in Range(SubSeq(Digits36, 11, 36)) \cup Range(UpperLetters)

is_ascii_alphanumeric(c) == is_ascii_digit(c) \/ is_ascii_alphabetic(c)

\* The value of c as a digit in radix 36, or 36 when it is none.
DigitValue(c) ==
  IF \E i \in DOMAIN Digits36 : Digits36[i] = c
  THEN (CHOOSE i \in DOMAIN Digits36 : Digits36[i] = c) - 1
  ELSE IF \E i \in DOMAIN UpperLetters : UpperLetters[i] = c
  THEN (CHOOSE i \in DOMAIN UpperLetters : UpperLetters[i] = c) + 9
  ELSE 36

\* char::to_digit
to_digit(c, radix) ==
  IF DigitValue(c) < radix THEN [some |-> TRUE, d |-> DigitValue(c)]
  ELSE [some |-> FALSE, d |-> 0]

\* Separator::get_symbols_map: the keys of char_to_separator_mapping
SeparatorChars == {";", ",", ".", "(", ")", "[", "]", "{", "}"}

\* Operator::get_character_set
OperatorChars ==
  {"+", "-", "*", "/", "%", "=", "!", "<", ">", "&", "|", "~", "^", "?",
   "#", "$", ":"}

\* str::find(|chr| !pred(chr)): the offset of the first character for which
\* pred fails, or -1 (None) when every character satisfies it.
FindNot(s, IsIn) ==
  IF \A i \in DOMAIN s : IsIn[s[i]] THEN -1
  ELSE (CHOOSE i \in DOMAIN s :
          ~IsIn[s[i]] /\ \A j \in 1..(i - 1) : IsIn[s[j]]) - 1

\* find(..).unwrap_or_else(|| dflt)
FindNotOr(s, IsIn, dflt) ==
  IF FindNot(s, IsIn) = -1 THEN dflt ELSE FindNot(s, IsIn)

IsIdentChar(s) == [i \in Range(s) |-> is_ascii_alphanumeric(i) \/ i = "_"]

IsLiteralChar(s) ==
  [i \in Range(s) |-> is_ascii_alphanumeric(i) \/ i = "_" \/ i = "."]

IsOperatorChar(s) == [i \in Range(s) |-> i \in OperatorChars]

starts_with(s, p) == Len(s) >= Len(p) /\ SubSeq(s, 1, Len(p)) = p

(***************************************************************************)
(* tokenize_from_line                                                      *)
(***************************************************************************)
\* The outcome of a call: status is "ok", "err" (a returned Error) or
\* "panic" (the call aborts); trail is the value of the accumulator `out`
\* after each digit that was parsed.
TokErr(e, ch, base, trail) ==
  [status |-> "err", err |-> e, ch |-> ch, base |-> base,
   variant |-> "", value |-> U64Zero, text |-> <<>>, rest |-> <<>>,
   char_length |-> 0, trail |-> trail]

TokPanic(why) ==
  [status |-> "panic", err |-> why, ch |-> "", base |-> 0,
   variant |-> "", value |-> U64Zero, text |-> <<>>, rest |-> <<>>,
   char_length |-> 0, trail |-> <<>>]

TokOk(variant, value, text, rest, trail) ==
  [status |-> "ok", err |-> "", ch |-> "", base |-> 0,
   variant |-> variant, value |-> value, text |-> text, rest |-> rest,
   char_length |-> Len(text), trail |-> trail]

TokNone ==
  [status |-> "none", err |-> "", ch |-> "", base |-> 0,
   variant |-> "", value |-> U64Zero, text |-> <<>>, rest |-> <<>>,
   char_length |-> 0, trail |-> <<>>]

\* The token variant discriminant and length in bytes (the first match).
token_dispatch(line_content) ==
  LET first_char == line_content[1]
      dflt == Len(line_content)
  IN  CASE starts_with(line_content, <<"/", "/">>) ->
             [ok |-> FALSE, err |-> "FeatureNotYetImplemented", d |-> "", len |-> 0]
        [] starts_with(line_content, <<"/", "*">>) ->
             [ok |-> FALSE, err |-> "FeatureNotYetImplemented", d |-> "", len |-> 0]
        [] is_ascii_alphabetic(first_char) \/ first_char = "_" ->
             [ok |-> TRUE, err |-> "", d |-> "Identifier",
              len |-> FindNotOr(line_content, IsIdentChar(line_content), dflt)]
        [] is_ascii_digit(first_char) ->
             [ok |-> TRUE, err |-> "", d |-> "NumericalLiteral",
              len |-> FindNotOr(line_content, IsLiteralChar(line_content), dflt)]
        [] first_char \in SeparatorChars ->
             [ok |-> TRUE, err |-> "", d |-> "Separator", len |-> 1]
        [] first_char \in OperatorChars ->
             [ok |-> TRUE, err |-> "", d |-> "Operator",
              len |-> FindNotOr(line_content, IsOperatorChar(line_content), dflt)]
        [] first_char = "@" ->
             [ok |-> TRUE, err |-> "", d |-> "Keyword",
              len |-> FindNotOr(Tail(line_content),
                                IsIdentChar(line_content), dflt) + 1]
        [] first_char = "'" ->
             [ok |-> FALSE, err |-> "FeatureNotYetImplemented", d |-> "", len |-> 0]
        [] first_char = "\"" ->
             [ok |-> FALSE, err |-> "FeatureNotYetImplemented", d |-> "", len |-> 0]
        [] OTHER ->
             [ok |-> FALSE, err |-> "InvalidTokenStartChar", d |-> "", len |-> 0]

\* literal_base with the octal and binary prefixes exchanged.
literal_base_swapped(token_string) ==
  LET plain == [ok |-> TRUE, has_prefix |-> FALSE, base |-> 10,
                is_float |-> FALSE, ch |-> ""]
      prefixed(b, f) == [ok |-> TRUE, has_prefix |-> TRUE, base |-> b,
                         is_float |-> f, ch |-> ""]
  IN  IF token_string[1] = "0"
      THEN IF Len(token_string) < 2 THEN plain
           ELSE LET second_char == token_string[2]
                IN  CASE is_ascii_digit(second_char) -> plain
                      [] second_char = "x" -> prefixed(16, FALSE)
                      [] second_char = "o" -> prefixed(2, FALSE)
                      [] second_char = "b" -> prefixed(8, FALSE)
                      [] second_char = "f" -> prefixed(10, TRUE)
                      [] OTHER -> [ok |-> FALSE, has_prefix |-> FALSE, base |-> 0,
                                   is_float |-> FALSE, ch |-> second_char]
      ELSE plain

\* The base from the number prefix: (has_prefix, base, is_float), or the
\* InvalidNumericalLiteralBase error.
literal_base(token_string) ==
  LET plain == [ok |-> TRUE, has_prefix |-> FALSE, base |-> 10,
                is_float |-> FALSE, ch |-> ""]
      prefixed(b, f) == [ok |-> TRUE, has_prefix |-> TRUE, base |-> b,
                         is_float |-> f, ch |-> ""]
  IN  IF token_string[1] = "0"
      THEN IF Len(token_string) < 2 THEN plain
           ELSE LET second_char == token_string[2]
                IN  CASE is_ascii_digit(second_char) -> plain
                      [] second_char = "x" -> prefixed(16, FALSE)
                      [] second_char = "o" -> prefixed(8, FALSE)
                      [] second_char = "b" -> prefixed(2, FALSE)
                      [] second_char = "f" -> prefixed(10, TRUE)
                      [] OTHER -> [ok |-> FALSE, has_prefix |-> FALSE, base |-> 0,
                                   is_float |-> FALSE, ch |-> second_char]
      ELSE plain

\* out.checked_mul(base).map(|value| value.checked_add(digit)).flatten() with
\* the accumulator dropping the carry out of bit 63 instead.
accumulate_wrapping(out, base, digit) ==
  Some(wrapping_add(wrapping_mul(out, base), digit))

\* out.checked_mul(base).map(|value| value.checked_add(digit)).flatten()
accumulate(out, base, digit) ==
  IF checked_mul(out, base).some
  THEN checked_add(checked_mul(out, base).v, digit)
  ELSE None

\* One iteration of the digit loop on the character chr; st holds the
\* accumulator `out` or the error the loop returned with.
parse_digit(chr, base, int_max_value, st) ==
  IF chr = "_" THEN st
  ELSE IF ~to_digit(chr, base).some
  THEN [st EXCEPT !.ok = FALSE, !.err = "InvalidDigitForBase", !.ch = chr,
                  !.base = base]
  ELSE LET value == accumulate(st.out, base, to_digit(chr, base).d)
       IN  IF value.some /\ U64Gt(value.v, int_max_value)
           THEN [st EXCEPT !.ok = FALSE, !.err = "NumericalLiteralTooLarge"]
           ELSE IF value.some
           THEN [st EXCEPT !.out = value.v, !.trail = Append(st.trail, value.v)]
           ELSE [st EXCEPT !.ok = FALSE, !.err = "NumericalLiteralTooLarge"]

\* The digit loop over chars[lo..hi], in order, stopping at the first error
\* (the range is split in halves to keep the evaluation shallow).
RECURSIVE parse_digits(_, _, _, _, _, _)
parse_digits(chars, lo, hi, base, int_max_value, st) ==
  IF ~st.ok \/ lo > hi THEN st
  ELSE IF lo = hi THEN parse_digit(chars[lo], base, int_max_value, st)
  ELSE LET mid == (lo + hi) \div 2
           left == parse_digits(chars, lo, mid, base, int_max_value, st)
       IN  parse_digits(chars, mid + 1, hi, base, int_max_value, left)

\* The NumericalLiteral arm of the variant match.
numerical_literal(main_data, token_string, string_without_token) ==
  LET b == literal_base(token_string)
      string_without_prefix ==
        IF b.has_prefix THEN SubSeq(token_string, 3, Len(token_string))
        ELSE token_string
      p == parse_digits(string_without_prefix, 1, Len(string_without_prefix),
                        b.base, main_data.int_max_value,
                        [ok |-> TRUE, out |-> U64Zero, err |-> "", ch |-> "",
                         base |-> 0, trail |-> <<>>])
  IN  IF ~b.ok THEN TokErr("InvalidNumericalLiteralBase", b.ch, 0, <<>>)
      ELSE IF b.is_float THEN TokErr("FeatureNotYetImplemented", "", 0, <<>>)
      ELSE IF ~p.ok THEN TokErr(p.err, p.ch, p.base, p.trail)
      ELSE TokOk("NumericalLiteral", p.out, token_string, string_without_token, p.trail)

tokenize_from_line(main_data, line_content) ==
  LET d == token_dispatch(line_content)
      token_string == SubSeq(line_content, 1, d.len)
      string_without_token == SubSeq(line_content, d.len + 1, Len(line_content))
  IN  IF ~d.ok
      THEN TokErr(d.err, IF d.err = "InvalidTokenStartChar" THEN line_content[1] ELSE "",
                  0, <<>>)
      ELSE IF d.len > Len(line_content) THEN TokPanic("split_at")
      ELSE IF d.len = 0 THEN TokPanic("expect")
      ELSE CASE d.d = "Identifier" ->
                  TokOk("Identifier", U64Zero, token_string, string_without_token, <<>>)
             [] d.d = "Separator" ->
                  TokOk("Separator", U64Zero, token_string, string_without_token, <<>>)
             [] d.d = "NumericalLiteral" ->
                  numerical_literal(main_data, token_string, string_without_token)
             [] OTHER -> TokPanic("todo")

(***************************************************************************)
(* Positional notation, for stating what a literal denotes: a number is    *)
(* its digit string without leading zeros, most significant digit first.   *)
(***************************************************************************)
\* x divided by a small b: <<quotient, remainder>>, by long division from
\* the top limb.
U64DivMod(x, b) ==
  LET c4 == x[4]
      c3 == (c4 % b) * Limb + x[3]
      c2 == (c3 % b) * Limb + x[2]
      c1 == (c2 % b) * Limb + x[1]
  IN  <<(<<c1 \div b, c2 \div b, c3 \div b, c4 \div b>>), c1 % b>>

\* The largest k with b^k <= 2^15, for the bases 2..36: that many digits
\* are split off by one division.
ChunkLen(b) == CHOOSE k \in 1..15 : b^k <= 2^15 /\ b^(k + 1) > 2^15

\* The k digits of n < b^k, most significant first.
SmallDigits(n, b, k) == [i \in 1..k |-> (n \div b^(k - i)) % b]

StripZeros(ds) ==
  IF \A i \in DOMAIN ds : ds[i] = 0 THEN <<>>
  ELSE SubSeq(ds, CHOOSE i \in DOMAIN ds :
                    ds[i] # 0 /\ \A j \in 1..(i - 1) : ds[j] = 0, Len(ds))

\* The digits of x in base b with leading zeros, a chunk of digits at a time.
RECURSIVE PaddedDigits(_, _)
PaddedDigits(x, b) ==
  IF x = U64Zero THEN <<>>
  ELSE LET qr == U64DivMod(x, b^ChunkLen(b))
       IN  PaddedDigits(qr[1], b) \o SmallDigits(qr[2], b, ChunkLen(b))

\* The digits of x in base b, most significant first (none for 0).
ToDigits(x, b) == StripZeros(PaddedDigits(x, b))

NotUnderscore(c) == c # "_"

\* A run of characters without its underscores.
StripUnderscores(chars) == SelectSeq(chars, NotUnderscore)

\* The digits a run of characters denotes (underscores are no digits).
DigitsOf(chars) ==
  StripZeros([i \in DOMAIN StripUnderscores(chars) |->
                DigitValue(StripUnderscores(chars)[i])])

\* a > b for two digit strings of one length
LexGt(a, b) ==
  \E i \in DOMAIN a : a[i] > b[i] /\ \A j \in 1..(i - 1) : a[j] = b[j]

\* a > b for two digit strings without leading zeros in one base
DigitsGt(a, b) == Len(a) > Len(b) \/ (Len(a) = Len(b) /\ LexGt(a, b))

(***************************************************************************)
(* The lines the lexer is run on.                                          *)
(***************************************************************************)
MaxLineLen == 3

LexAlphabet == {"0", "1", "9", "a", "x", "b", "f", "_", "+", "@"}

\* Every line of at most MaxLineLen characters over the alphabet.
ShortLines == UNION {[1..n -> LexAlphabet] : n \in 1..MaxLineLen}

\* Lines for the dispatch arms and prefixes the alphabet leaves out.
ExtraLines ==
  {<<"0", "o", "1", "7">>, <<"0", "o", "8">>, <<"0", "x", "1", "A">>,
   <<"0", "b", "1", "0", "1">>, <<"0", "b", "2">>, <<"4", "2">>,
   <<"1", "_", "0", "0", "0">>, <<"1", ".", "5">>, <<"0", ".", "5">>,
   <<"0", "_", "x", "1">>, <<"0", "x", "_", "1", "_">>, <<"0", "o", "_", "7">>,
   <<"0", "f", "1", ".", "5">>, <<"0", "z">>, <<"7", ";">>, <<"0", "x">>,
   <<"/", "/", "a">>, <<"/", "*">>, <<"/", "1">>, <<";", "1">>, <<"(", ")">>,
   <<"'", "a", "'">>, <<"\"", "a">>, <<" ", "1">>, <<"x", "_", "1", "=", "2">>,
   <<"@", "a", "b", " ", "1">>, <<"=", "=", "1">>, <<"_", "9", "(">>}

Prefix(base) ==
  CASE base = 16 -> <<"0", "x">>
    [] base = 8 -> <<"0", "o">>
    [] base = 2 -> <<"0", "b">>
    [] OTHER -> <<>>

DigitChars(ds) == [i \in DOMAIN ds |-> Digits36[ds[i] + 1]]

\* Literals at and around the largest value of a width w, written in a base:
\* the largest value with its last digit changed, with a digit more, with a
\* leading zero, with underscores, with its first digit raised, and followed
\* by a character that is no digit.
BoundaryLinesOf(w, base) ==
  LET D == ToDigits(int_max_value_of(w), base)
      n == Len(D)
      lit(ds) == Prefix(base) \o DigitChars(ds)
  IN  {lit([D EXCEPT ![n] = d]) : d \in 0..(base - 1)}
      \cup {lit(D \o <<0>>), lit(<<0>> \o D),
            lit(IF D[1] < base - 1 THEN [D EXCEPT ![1] = D[1] + 1] ELSE D),
            lit(SubSeq(D, 1, n - 1)) \o <<"_", Digits36[D[n] + 1], "_">>,
            lit(D) \o <<"z">>, lit(D \o <<0>>) \o <<"z">>,
            lit(D) \o <<"+", "1">>}

LiteralBases == {2, 8, 10, 16}

BoundaryLines ==
  UNION {BoundaryLinesOf(w, base) : w \in IntBitWidths, base \in LiteralBases}

LexLines == ShortLines \cup ExtraLines \cup BoundaryLines

(***************************************************************************)
(* The abstract syntax tree (ast_node.rs).  A node is a record carrying    *)
(* every field any variant uses; the fields a variant does not use hold    *)
(* their empty value.  The children of a FunctionCall are the called       *)
(* function followed by the arguments; those of a FunctionDefinition are   *)
(* the parameters followed by the body.                                    *)
(***************************************************************************)
\* NonZeroUsize::new(1): line and column of the placeholder nodes
dummy_number == 1

AstNode(kind) ==
  [kind |-> kind, value |-> U64Zero, name |-> "", operator |-> "",
   operation |-> "", metadata |-> "", children |-> <<>>,
   result_is_undefined |-> FALSE,
   start |-> <<dummy_number, dummy_number>>,
   end |-> <<dummy_number, dummy_number>>]

Constant(value) == [AstNode("Constant") EXCEPT !.value = value]

Identifier(name) == [AstNode("Identifier") EXCEPT !.name = name]

String(text) == [AstNode("String") EXCEPT !.name = text]

Operator(operator, operation, operands) ==
  [AstNode("Operator") EXCEPT !.operator = operator, !.operation = operation,
                              !.children = operands]

Block(children, result_is_undefined) ==
  [AstNode("Block") EXCEPT !.children = children,
                           !.result_is_undefined = result_is_undefined]

FunctionCall(function, arguments) ==
  [AstNode("FunctionCall") EXCEPT !.children = <<function>> \o arguments]

FunctionDefinition(parameters, body) ==
  [AstNode("FunctionDefinition") EXCEPT !.children = parameters \o <<body>>]

Metadata(metadata, child) ==
  [AstNode("Metadata") EXCEPT !.metadata = metadata, !.children = <<child>>]

\* The placeholder a pass leaves in a slot whose node it has taken out:
\* Constant(0) at line 1, column 1.
DummyNode == Constant(U64Zero)

\* mem::swap(&mut children[i], &mut placeholder): the node with the
\* placeholder in slot i.
swap_out(self, i) == [self EXCEPT !.children[i] = DummyNode]

(***************************************************************************)
(* Global separation (AstNode::separate_globals).                          *)
(* The outcome of a call is a record: ok, the error kind with its name     *)
(* argument and position, the node as the call leaves it (on an error      *)
(* too, since the pass works in place), the global table as the call       *)
(* leaves it, and the (name, node) pairs it passed to HashMap::insert, in  *)
(* order.                                                                  *)
(***************************************************************************)
EmptyTable == [n \in {} |-> DummyNode]

insert_dropped(global_list, name, node) == global_list

\* HashMap::insert, which stores the value under the key whether or not the
\* key was present.
insert(global_list, name, node) ==
  [n \in DOMAIN global_list \cup {name} |->
     IF n = name THEN node ELSE global_list[n]]

SepOk(node, global_list, inserts) ==
  [ok |-> TRUE, err |-> "", name |-> "", at |-> <<0, 0>>, node |-> node,
   global_list |-> global_list, inserts |-> inserts]

SepErr(err, name, at, node, global_list, inserts) ==
  [ok |-> FALSE, err |-> err, name |-> name, at |-> at, node |-> node,
   global_list |-> global_list, inserts |-> inserts]

\* `*self = identifier_node`: what stands in the place of a separated
\* assignment.
assignment_kept(self, identifier_node) ==
  [self EXCEPT !.children = <<identifier_node, DummyNode>>]

assignment_replacement(self, identifier_node) == identifier_node

\* `*self = child`: what stands in the place of a single-statement block.
block_kept(self, child) == [self EXCEPT !.children = <<child>>]

block_replacement(self, child) == child

\* The discard flag given to the right operand of an Assignment.
operand_discarded_inherited(will_be_discarded) == will_be_discarded

operand_discarded(will_be_discarded) == FALSE

RECURSIVE separate_globals(_, _, _)
RECURSIVE separate_operands(_, _, _, _, _)

\* The loop of the Normal arm from operand i on; the loop ends at the first
\* operand that fails.
separate_operands(self, i, global_list, will_be_discarded, inserts) ==
  IF i > Len(self.children) THEN SepOk(self, global_list, inserts)
  ELSE LET r == separate_globals(self.children[i], global_list,
                                 will_be_discarded)
           next == [self EXCEPT !.children[i] = r.node]
       IN  IF ~r.ok
           THEN [r EXCEPT !.node = next, !.inserts = inserts \o r.inserts]
           ELSE separate_operands(next, i + 1, r.global_list,
                                  will_be_discarded, inserts \o r.inserts)

separate_globals(self, global_list, will_be_discarded) ==
  CASE self.kind = "Operator" /\ self.operator = "Assignment" ->
         LET identifier_node == self.children[1]
             taken == swap_out(swap_out(self, 1), 2)
             r == separate_globals(self.children[2], global_list,
                                   operand_discarded(will_be_discarded))
             operand_node == r.node
             name == identifier_node.name
         IN  IF ~r.ok THEN [r EXCEPT !.node = taken]
             ELSE IF identifier_node.kind # "Identifier"
             THEN SepErr("GlobalAssignmentToNonIdentifier", "", self.start,
                         taken, r.global_list, r.inserts)
             ELSE IF name \in DOMAIN r.global_list
             THEN SepErr("GlobalVariableConflict", name, self.start, taken,
                         insert(r.global_list, name, operand_node),
                         Append(r.inserts, <<name, operand_node>>))
             ELSE SepOk(assignment_replacement(taken, identifier_node),
                        insert(r.global_list, name, operand_node),
                        Append(r.inserts, <<name, operand_node>>))
    [] self.kind = "Operator" /\ self.operator = "Normal" ->
         separate_operands(self, 1, global_list, will_be_discarded, <<>>)
    [] self.kind = "Operator" /\ self.operator = "Augmented" ->
         SepErr("GlobalAugmentedOperator", "", self.start, self, global_list,
                <<>>)
    [] self.kind = "Operator" /\ self.operator = "LValueAssignment" ->
         SepErr("GlobalLValueAssignment", "", self.start, self, global_list,
                <<>>)
    [] self.kind = "FunctionCall" ->
         IF will_be_discarded
         THEN SepErr("DiscardedGlobalFunctionCall", "", self.start, self,
                     global_list, <<>>)
         ELSE SepOk(self, global_list, <<>>)
    [] self.kind = "Block" ->
         IF self.result_is_undefined /\ self.children = <<>>
         THEN SepOk(self, global_list, <<>>)
         ELSE IF Len(self.children) # 1
                 \/ (self.result_is_undefined /\ Len(self.children) # 0)
         THEN SepErr("FeatureNotYetImplemented", "Global blocks", self.start,
                     self, global_list, <<>>)
         ELSE LET r == separate_globals(self.children[1], global_list,
                                        will_be_discarded)
              IN  IF ~r.ok THEN [r EXCEPT !.node = swap_out(self, 1)]
                  ELSE [r EXCEPT !.node = block_replacement(self, r.node)]
    [] self.kind = "Metadata" ->
         LET r == separate_globals(self.children[1], global_list,
                                   will_be_discarded)
         IN  [r EXCEPT !.node = [self EXCEPT !.children[1] = r.node]]
    [] OTHER -> SepOk(self, global_list, <<>>)

(***************************************************************************)
(* Dependency analysis (AstNode::get_variable_dependencies).               *)
(* The two sets the function updates through its &mut parameters are       *)
(* parameters and fields of the outcome; import_dependencies, which the    *)
(* function only hands on, is left out.  The outcome also lists the calls  *)
(* of variable_dependencies.insert, each with the position of the          *)
(* Identifier it is for, and the call itself followed by the calls it      *)
(* made, each with the arguments it was given.                             *)
(***************************************************************************)
\* is_function, were it not to look through Metadata.
is_function_unwrapped(self) == self.kind = "FunctionDefinition"

RECURSIVE is_function(_)
is_function(self) ==
  CASE self.kind = "FunctionDefinition" -> TRUE
    [] self.kind = "Metadata" -> is_function(self.children[1])
    [] OTHER -> FALSE

DepCall(self, variable_dependencies, local_variables, is_l_value, is_link_function) ==
  [node |-> self, variable_dependencies |-> variable_dependencies,
   local_variables |-> local_variables, is_l_value |-> is_l_value,
   is_link_function |-> is_link_function]

DepOk(variable_dependencies, local_variables, added, calls) ==
  [ok |-> TRUE, err |-> "", at |-> <<0, 0>>,
   variable_dependencies |-> variable_dependencies,
   local_variables |-> local_variables, added |-> added, calls |-> calls]

DepErr(err, at, variable_dependencies, local_variables) ==
  [ok |-> FALSE, err |-> err, at |-> at,
   variable_dependencies |-> variable_dependencies,
   local_variables |-> local_variables, added |-> <<>>, calls |-> <<>>]

\* The operations an augmented or normal operator has two operands for.
UnaryOperations ==
  {"Dereference", "IntegerNegate", "FloatNegate", "Read", "TakeReference"}

no_parameter_locals(parameters) == {}

\* The operand of a Normal operator is an l-value, were the analysis to
\* take the operands that code generation builds as l-values.
operand_is_l_value_as_built(operation) ==
  operation \in {"Read", "TakeReference"}

\* The operands of a Normal operator are analysed as l-values.
operand_is_l_value(operation) == operation = "Read"

\* The local set an ordinary function definition starts from, were it the
\* set of the enclosing code.
enclosing_local_variables(local_variables) == local_variables

\* `let mut local_variables = HashSet::new();`, which shadows the set of the
\* enclosing code.
new_local_variables(local_variables) == {}

\* The fresh local set of an ordinary function: the names of its parameters.
parameter_locals(parameters) ==
  {parameters[i].name : i \in DOMAIN parameters}

RECURSIVE get_variable_dependencies(_, _, _, _, _)
RECURSIVE dependencies_of_each(_, _, _, _, _, _)
RECURSIVE dependencies_of_each_shared(_, _, _, _, _, _)

\* The loop when every node is given the one `local_variables` of the caller.
dependencies_of_each_shared(nodes, i, variable_dependencies, local_variables, l_values, cloned) ==
  IF i > Len(nodes) THEN DepOk(variable_dependencies, local_variables, <<>>, <<>>)
  ELSE LET r == get_variable_dependencies(nodes[i], variable_dependencies,
                                          local_variables, l_values[i], FALSE)
           rest(q) == IF ~q.ok THEN q
                      ELSE LET t == dependencies_of_each_shared(
                                      nodes, i + 1, q.variable_dependencies,
                                      q.local_variables, l_values, cloned)
                           IN  [t EXCEPT !.added = q.added \o t.added,
                                         !.calls = q.calls \o t.calls]
       IN  rest(r)

\* A loop `for node in nodes { node.get_variable_dependencies(..)?; }` from
\* node i on: l_values[i] is the is_l_value argument for node i, and with
\* `cloned` each node is given `&mut local_variables.clone()`.
dependencies_of_each(nodes, i, variable_dependencies, local_variables, l_values, cloned) ==
  IF i > Len(nodes) THEN DepOk(variable_dependencies, local_variables, <<>>, <<>>)
  ELSE LET r == get_variable_dependencies(nodes[i], variable_dependencies,
                                          local_variables, l_values[i], FALSE)
           locals == IF cloned THEN local_variables ELSE r.local_variables
           rest == dependencies_of_each(nodes, i + 1, r.variable_dependencies,
                                        locals, l_values, cloned)
       IN  IF ~r.ok THEN [r EXCEPT !.local_variables = locals]
           ELSE [rest EXCEPT !.added = r.added \o rest.added,
                             !.calls = r.calls \o rest.calls]

get_variable_dependencies(self, variable_dependencies, local_variables, is_l_value, is_link_function) ==
  LET ok == DepOk(variable_dependencies, local_variables, <<>>, <<>>)
      err(e) == DepErr(e, self.start, variable_dependencies, local_variables)
      each(nodes, l_values, cloned) ==
        dependencies_of_each(nodes, 1, variable_dependencies, local_variables,
                             l_values, cloned)
      all(nodes, l) == [i \in DOMAIN nodes |-> l]
      r ==
        IF is_link_function /\ ~is_function(self)
        THEN err("LinkNotUsedOnFunction")
        ELSE
        CASE self.kind = "Block" ->
               IF self.children = <<>> THEN ok
               ELSE IF is_l_value THEN err("FeatureNotYetImplemented")
               ELSE each(self.children, all(self.children, FALSE), FALSE)
          [] self.kind = "FunctionCall" ->
               IF is_l_value THEN err("LValueFunctionCall")
               ELSE each(self.children, all(self.children, FALSE), TRUE)
          [] self.kind = "FunctionDefinition" ->
               LET parameters == SubSeq(self.children, 1, Len(self.children) - 1)
                   body == self.children[Len(self.children)]
                   bad == {i \in DOMAIN parameters :
                             parameters[i].kind # "Identifier"}
               IN  IF is_l_value THEN err("LValueFunctionDefinition")
                   ELSE IF is_link_function
                   THEN each(self.children, all(self.children, FALSE), FALSE)
                   ELSE IF bad # {}
                   THEN DepErr("ExpectedIdentifier",
                               parameters[CHOOSE i \in bad :
                                            \A j \in bad : i <= j].start,
                               variable_dependencies, local_variables)
                   ELSE [get_variable_dependencies(
                           body, variable_dependencies,
                           new_local_variables(local_variables)
                             \cup parameter_locals(parameters), FALSE, FALSE)
                         EXCEPT !.local_variables = local_variables]
          [] self.kind = "Identifier" ->
               IF is_l_value
               THEN DepOk(variable_dependencies,
                          local_variables \cup {self.name}, <<>>, <<>>)
               ELSE IF self.name \notin local_variables
               THEN DepOk(variable_dependencies \cup {self.name},
                          local_variables, <<<<self.name, self.start>>>>, <<>>)
               ELSE ok
          [] self.kind = "Metadata" ->
               get_variable_dependencies(
                 self.children[1], variable_dependencies, local_variables,
                 is_l_value, self.metadata = "Link" \/ is_link_function)
          [] self.kind = "Operator" /\ self.operator = "Assignment" ->
               each(SubSeq(self.children, 1, 2), <<TRUE, FALSE>>, FALSE)
          [] self.kind = "Operator" /\ self.operator = "Augmented" ->
               IF self.operation \in UnaryOperations
               THEN err("FeatureNotYetImplemented")
               ELSE each(SubSeq(self.children, 1, 2), <<TRUE, FALSE>>, FALSE)
          [] self.kind = "Operator" /\ self.operator = "Normal" ->
               each(self.children,
                    all(self.children, operand_is_l_value(self.operation)),
                    FALSE)
          [] self.kind = "Operator" /\ self.operator = "LValueAssignment" ->
               each(self.children, all(self.children, TRUE), FALSE)
          [] OTHER -> ok
  IN  [r EXCEPT !.calls =
         <<DepCall(self, variable_dependencies, local_variables, is_l_value,
                   is_link_function)>> \o r.calls]

(***************************************************************************)
(* Code generation (build_function_definition, build_r_value,              *)
(* build_l_value, build_global_assignment, type_from_width,                *)
(* get_variable_by_name).                                                  *)
(*                                                                         *)
(* What the IR backend is driven to do is kept as the list of the          *)
(* functions added to the module and the list of the instructions built,   *)
(* each with the function the builder was positioned in.  A value is a     *)
(* constant, the undefined value, a function parameter, a function, or     *)
(* the result of an instruction (its rank in the list of instructions).    *)
(* A basic block is named by the function it is the entry block of.        *)
(*                                                                         *)
(* The build state `st` the operators hand on holds the fields of          *)
(* FileBuildData (entrypoint, built_globals), the module (functions,       *)
(* globals, instructions), the position of the builder, and two records    *)
(* kept for the properties: the bindings made and the names looked up      *)
(* (events), the function definitions lowered (lowerings), and the calls    *)
(* of build_r_value and build_l_value as they returned (builds).           *)
(***************************************************************************)
Value(kind, fn, id, value) ==
  [kind |-> kind, fn |-> fn, id |-> id, value |-> value]

NoValue == Value("none", 0, 0, U64Zero)

const_int(value) == Value("constant", 0, 0, value)

undefined == Value("undefined", 0, 0, U64Zero)

get_parameter(function, parameter_index) ==
  Value("parameter", function, parameter_index, U64Zero)

FunctionValue(function) == Value("function", function, 0, U64Zero)

NoEntryPoint == [some |-> FALSE, v |-> NoValue]

BlockNone == [some |-> FALSE, block |-> 0]

BlockSome(function) == [some |-> TRUE, block |-> function]

EmptyBuild ==
  [entrypoint |-> NoEntryPoint, built_globals |-> <<>>, functions |-> <<>>,
   globals |-> <<>>, instructions |-> <<>>, position |-> 0, events |-> <<>>,
   lowerings |-> <<>>, builds |-> <<>>]

\* An instruction built at the position of the builder, and its value.
build(st, op, operands, ty, name) ==
  [st |-> [st EXCEPT !.instructions =
             Append(@, [op |-> op, fn |-> st.position, operands |-> operands,
                        ty |-> ty, name |-> name])],
   value |-> Value("instruction", st.position, Len(st.instructions) + 1,
                   U64Zero)]

\* Module::add_function: parameter and return types are given by their
\* widths in bits.
add_function(st, name, parameter_types, return_type, linkage) ==
  [st EXCEPT !.functions =
     Append(@, [name |-> name, parameter_types |-> parameter_types,
                return_type |-> return_type, linkage |-> linkage])]

\* Builder::position_at_end
position_at_end(st, basic_block) == [st EXCEPT !.position = basic_block]

GenResult(status, err, at, value, st, local_variables) ==
  [status |-> status, err |-> err, at |-> at, value |-> value,
   values |-> <<>>, st |-> st, local_variables |-> local_variables]

GenOk(value, st, local_variables) ==
  GenResult("ok", "", <<0, 0>>, value, st, local_variables)

\* An error that carries no position.
GenErr_nowhere(err, at, st, local_variables) ==
  GenResult("err", err, <<0, 0>>, NoValue, st, local_variables)

GenErr(err, at, st, local_variables) ==
  GenResult("err", err, at, NoValue, st, local_variables)

\* unreachable!(), an index that is not in a map, unwrap() of None
GenPanic(why, st, local_variables) ==
  GenResult("panic", why, <<0, 0>>, NoValue, st, local_variables)

\* A scope of the scope stack: the variables bound in it, and (kept for the
\* properties) the span of the Block or function definition it was made for.
Scope(variables, owner) == [variables |-> variables, owner |-> owner]

Span(self) == <<self.start, self.end>>

\* The innermost scope that binds the name, 0 if none does
\* (`for scope_level in local_variables.iter().rev()`).
scope_of(local_variables, name) ==
  LET binding == {i \in DOMAIN local_variables :
                    name \in DOMAIN local_variables[i].variables}
  IN  IF binding = {} THEN 0
      ELSE CHOOSE i \in binding : \A j \in binding : j <= i

Event(event, name, slot, at, owner, fn) ==
  [event |-> event, name |-> name, slot |-> slot, at |-> at, owner |-> owner,
   fn |-> fn]

NoSpan == <<<<0, 0>>, <<0, 0>>>>

\* A call of build_r_value or build_l_value on a node as it returns: the
\* numbers of instructions and of events before and after it, the basic
\* block it was given, where it leaves the builder, the scope stack as it
\* found and as it leaves it, and the value or the error it returns.
returned_from(call, self, st, local_variables, basic_block, r) ==
  [r EXCEPT !.st.builds =
     Append(@, [call |-> call, at |-> Span(self), status |-> r.status,
                from |-> <<Len(st.instructions), Len(st.events)>>,
                to |-> <<Len(r.st.instructions), Len(r.st.events)>>,
                basic_block |-> basic_block, entered |-> st.position,
                position |-> r.st.position,
                scopes_entered |-> local_variables,
                scopes |-> r.local_variables, value |-> r.value,
                err |-> r.err])]

\* get_variable_by_name; `at` is the position of the Identifier node read.
get_variable_by_name(main_data, st, local_variables, name, at) ==
  LET loaded(i, variable, load) ==
        GenOk(load.value,
              [load.st EXCEPT !.events =
                 Append(@, Event("lookup", name, variable, at,
                                 local_variables[i].owner, st.position))],
              local_variables)
      found(i) ==
        IF i # 0
        THEN loaded(i, local_variables[i].variables[name],
                    build(st, "load", <<local_variables[i].variables[name]>>,
                          main_data.int_bit_width, name))
        ELSE IF name \in DOMAIN st.built_globals
        THEN GenOk(st.built_globals[name],
                   [st EXCEPT !.events =
                      Append(@, Event("lookup", name, NoValue, at, NoSpan,
                                      st.position))],
                   local_variables)
        ELSE GenPanic("built_globals[name]", st, local_variables)
  IN  found(scope_of(local_variables, name))

u16_MAX == 65535

\* The folding without the final mask.
integer_negate_unmasked(main_data, value) ==
  wrapping_add(U64Xor(value, main_data.int_max_value), 1)

\* The folding of IntegerNegate over a constant (AstNode::const_evaluate).
integer_negate(main_data, value) ==
  U64And(wrapping_add(U64Xor(value, main_data.int_max_value), 1),
         main_data.int_max_value)

\* type_from_width taking every constant for its own magnitude.
type_from_width_unsigned(self, main_data) ==
  IF self.kind # "Constant"
  THEN [ok |-> FALSE, err |-> "InvalidType", at |-> self.start,
        bits |-> 0, is_signed |-> FALSE]
  ELSE IF self.value \in {U64Of(1), U64Of(2), U64Of(4), U64Of(8), U64Of(16)}
  THEN [ok |-> TRUE, err |-> "", at |-> <<0, 0>>,
        bits |-> 8 * self.value[1], is_signed |-> FALSE]
  ELSE [ok |-> FALSE, err |-> "InvalidTypeWidth", at |-> self.start,
        bits |-> 0, is_signed |-> FALSE]

\* AstNode::type_from_width: the width in bits and the signedness a node in
\* type position stands for.
type_from_width(self, main_data) ==
  LET typed(is_negative, byte_width) ==
        IF byte_width \in {U64Of(1), U64Of(2), U64Of(4), U64Of(8), U64Of(16)}
        THEN [ok |-> TRUE, err |-> "", at |-> <<0, 0>>,
              bits |-> 8 * byte_width[1], is_signed |-> is_negative]
        ELSE [ok |-> FALSE, err |-> "InvalidTypeWidth", at |-> self.start,
              bits |-> 0, is_signed |-> FALSE]
      signed(is_negative) ==
        typed(is_negative,
              IF is_negative
              THEN wrapping_add(U64Xor(self.value, main_data.int_max_value), 1)
              ELSE self.value)
  IN  IF self.kind # "Constant"
      THEN [ok |-> FALSE, err |-> "InvalidType", at |-> self.start,
            bits |-> 0, is_signed |-> FALSE]
      ELSE signed(U64And(main_data.sign_bit_mask, self.value) # U64Zero)

\* u8::cmp
cmp(a, b) == IF a < b THEN "Less" ELSE IF a = b THEN "Equal" ELSE "Greater"

\* The conversion of the return value, were it the rule for arguments.
return_conversion_as_argument(ordering, is_signed) ==
  CASE ordering = "Less" ->
         IF is_signed THEN "sign_extend" ELSE "zero_extend"
    [] ordering = "Equal" -> ""
    [] ordering = "Greater" -> "truncate"

\* The conversion of the value the external function returns, by the
\* ordering of the uniform width against the external width: the name of
\* the instruction built, "" for none.
return_conversion(ordering, is_signed) ==
  CASE ordering = "Less" -> "truncate"
    [] ordering = "Equal" -> ""
    [] ordering = "Greater" ->
         IF is_signed THEN "sign_extend" ELSE "zero_extend"

argument_conversion_extending(ordering, is_signed) ==
  return_conversion(ordering, is_signed)

\* The conversion of an argument handed to the external function.
argument_conversion(ordering, is_signed) ==
  CASE ordering = "Less" ->
         IF is_signed THEN "sign_extend" ELSE "zero_extend"
    [] ordering = "Equal" -> ""
    [] ordering = "Greater" -> "truncate"

\* A value converted by the named instruction to the type of `ty` bits.
converted(st, conversion, value, ty) ==
  IF conversion = "" THEN [st |-> st, value |-> value]
  ELSE build(st, conversion, <<value>>, ty, conversion)

\* Vec::pop on the scope stack, and the stack left as it is.
keep_scope(local_variables) == local_variables

pop_scope(local_variables) ==
  SubSeq(local_variables, 1, Len(local_variables) - 1)

record_entry_point_always(entrypoint, is_entry_point, result) ==
  [ok |-> TRUE,
   entrypoint |-> IF is_entry_point THEN [some |-> TRUE, v |-> result]
                  ELSE entrypoint]

\* The entry point of the unit after a definition has been lowered to
\* `result`; not ok stands for Err(MultipleEntryPoints).
record_entry_point(entrypoint, is_entry_point, result) ==
  IF is_entry_point
  THEN IF entrypoint.some THEN [ok |-> FALSE, entrypoint |-> entrypoint]
       ELSE [ok |-> TRUE, entrypoint |-> [some |-> TRUE, v |-> result]]
  ELSE [ok |-> TRUE, entrypoint |-> entrypoint]

\* The operations build_r_value has an arm for.
BinaryOperations ==
  {"IntegerAdd", "IntegerSubtract", "IntegerMultiply", "UnsignedDivide",
   "UnsignedModulo", "SignedDivide", "SignedTruncatedModulo", "BitwiseAnd",
   "BitwiseOr", "BitwiseXor"}

\* AstNode::build_l_value: the value of an ok outcome is the stack slot.
build_l_value(self, main_data, st, local_variables) ==
  LET created(alloca) ==
        GenOk(alloca.value,
              [alloca.st EXCEPT !.events =
                 Append(@, Event("bind", self.name, alloca.value, self.start,
                                 local_variables[Len(local_variables)].owner,
                                 st.position))],
              [local_variables EXCEPT ![Len(local_variables)].variables =
                 insert(@, self.name, alloca.value)])
      missing(alloca) ==
        IF local_variables = <<>>
        THEN GenPanic("last_mut().unwrap()", alloca.st, local_variables)
        ELSE created(alloca)
      resolved(i) ==
        IF i # 0
        THEN GenOk(local_variables[i].variables[self.name],
                   [st EXCEPT !.events =
                      Append(@, Event("resolve", self.name,
                                      local_variables[i].variables[self.name],
                                      self.start, local_variables[i].owner,
                                      st.position))],
                   local_variables)
        ELSE missing(build(st, "alloca", <<>>, main_data.int_bit_width,
                           self.name))
  IN  returned_from(
        "build_l_value", self, st, local_variables, BlockNone,
        CASE self.kind = "Identifier" ->
               resolved(scope_of(local_variables, self.name))
          [] self.kind \in {"Block", "Operator"} ->
               GenErr("FeatureNotYetImplemented", self.start, st,
                      local_variables)
          [] OTHER -> GenErr("InvalidLValue", self.start, st, local_variables))

\* The loop over the parameters of an ordinary function from parameter i
\* on: a stack slot for each, with the incoming argument stored into it.
RECURSIVE build_parameters(_, _, _, _, _, _)
build_parameters(parameters, i, main_data, st, function, variables) ==
  LET stored(alloca, store) ==
        build_parameters(
          parameters, i + 1, main_data,
          [store.st EXCEPT !.events =
             Append(@, Event("bind", parameters[i].name, alloca.value,
                             parameters[i].start, variables.owner,
                             st.position))],
          function,
          [variables EXCEPT !.variables =
             insert(@, parameters[i].name, alloca.value)])
      allocated(alloca) ==
        stored(alloca,
               build(alloca.st, "store",
                     <<alloca.value, get_parameter(function, i - 1)>>, 0, ""))
  IN  IF i > Len(parameters) THEN GenOk(NoValue, st, <<variables>>)
      ELSE IF parameters[i].kind # "Identifier"
      THEN GenErr("ExpectedIdentifier", parameters[i].start, st,
                  <<variables>>)
      ELSE allocated(build(st, "alloca", <<>>, main_data.int_bit_width,
                           parameters[i].name))

\* The first parameter of a link function, from parameter i on, that does
\* not stand for a type; 0 if all do.
RECURSIVE first_invalid_type(_, _, _)
first_invalid_type(parameters, i, main_data) ==
  IF i > Len(parameters) THEN 0
  ELSE IF ~type_from_width(parameters[i], main_data).ok THEN i
  ELSE first_invalid_type(parameters, i + 1, main_data)

\* The loop that casts the arguments of a link function from parameter i
\* on; `arguments` are the converted arguments so far.
RECURSIVE convert_arguments(_, _, _, _, _, _)
convert_arguments(parameters, i, main_data, st, function, arguments) ==
  LET pushed(argument_converted) ==
        convert_arguments(parameters, i + 1, main_data, argument_converted.st,
                          function,
                          Append(arguments, argument_converted.value))
      cast(type) ==
        pushed(converted(st,
                         argument_conversion(
                           cmp(main_data.int_bit_width, type.bits % 2^8),
                           type.is_signed),
                         get_parameter(function, i - 1), type.bits))
  IN  IF i > Len(parameters) THEN [st |-> st, arguments |-> arguments]
      ELSE cast(type_from_width(parameters[i], main_data))

RECURSIVE build_function_definition(_, _, _, _, _, _)
RECURSIVE build_r_value(_, _, _, _, _)
RECURSIVE build_each(_, _, _, _, _, _)

\* The loop taken from its last node to its first.
RECURSIVE build_each_backwards(_, _, _, _, _, _)
build_each_backwards(nodes, i, main_data, st, local_variables, basic_block) ==
  LET joined(rest, r) ==
        IF r.status # "ok" THEN r
        ELSE [r EXCEPT !.values = <<r.value>> \o rest.values,
                       !.value = IF i = Len(nodes) THEN r.value
                                 ELSE rest.value]
      continued(rest) ==
        IF rest.status # "ok" THEN rest
        ELSE joined(rest, build_r_value(nodes[i], main_data, rest.st,
                                        rest.local_variables, basic_block))
  IN  IF i > Len(nodes) THEN GenOk(NoValue, st, local_variables)
      ELSE continued(build_each_backwards(nodes, i + 1, main_data, st,
                                          local_variables, basic_block))

\* A loop that builds the nodes from node i on as r-values, in order; the
\* outcome holds the values built and, as its value, the last of them.
build_each(nodes, i, main_data, st, local_variables, basic_block) ==
  LET joined(r, rest) ==
        IF rest.status # "ok" THEN rest
        ELSE [rest EXCEPT !.values = <<r.value>> \o rest.values,
                          !.value = IF i = Len(nodes) THEN r.value
                                    ELSE rest.value]
      continued(r) ==
        IF r.status # "ok" THEN r
        ELSE joined(r, build_each(nodes, i + 1, main_data, r.st,
                                  r.local_variables, basic_block))
  IN  IF i > Len(nodes) THEN GenOk(NoValue, st, local_variables)
      ELSE continued(build_r_value(nodes[i], main_data, st, local_variables,
                                   basic_block))

\* The body of the function built for a FunctionDefinition node, up to the
\* return instruction.
lower_ordinary(self, main_data, st, function) ==
  LET returned(body) ==
        IF body.status # "ok" THEN body
        ELSE GenOk(NoValue,
                   build(body.st, "return", <<body.value>>, 0, "").st, <<>>)
      scoped(p) ==
        IF p.status # "ok" THEN p
        ELSE returned(build_r_value(self.children[Len(self.children)],
                                    main_data, p.st, p.local_variables,
                                    BlockSome(function)))
  IN  scoped(build_parameters(
               SubSeq(self.children, 1, Len(self.children) - 1), 1, main_data,
               st, function, Scope(EmptyTable, Span(self))))

\* The body of the wrapper built for a link function, up to the return
\* instruction.
lower_link(self, main_data, st, function, name) ==
  LET parameters == SubSeq(self.children, 1, Len(self.children) - 1)
      function_body == self.children[Len(self.children)]
      returned(call_result_converted) ==
        GenOk(NoValue,
              build(call_result_converted.st, "return",
                    <<call_result_converted.value>>, 0, "").st,
              <<>>)
      called(return_type, call_result) ==
        returned(converted(call_result.st,
                           return_conversion(
                             cmp(main_data.int_bit_width,
                                 return_type.bits % 2^8),
                             return_type.is_signed),
                           call_result.value, main_data.int_bit_width))
      cast(return_type, wrapped_function, args) ==
        called(return_type,
               build(args.st, "call",
                     <<FunctionValue(wrapped_function)>> \o args.arguments,
                     return_type.bits, name))
      linked(return_type, wrapped) ==
        cast(return_type, Len(wrapped.functions),
             convert_arguments(parameters, 1, main_data, wrapped, function,
                               <<>>))
      typed(invalid, return_type) ==
        IF invalid # 0
        THEN GenErr(type_from_width(parameters[invalid], main_data).err,
                    parameters[invalid].start, st, <<>>)
        ELSE IF ~return_type.ok
        THEN GenErr(return_type.err, function_body.start, st, <<>>)
        ELSE linked(return_type,
                    add_function(
                      st, name,
                      [i \in DOMAIN parameters |->
                         type_from_width(parameters[i], main_data).bits],
                      return_type.bits, "DLLImport"))
  IN  typed(first_invalid_type(parameters, 1, main_data),
            type_from_width(function_body, main_data))

build_function_definition(self, main_data, st, name, is_link_function, is_entry_point) ==
  LET \* what is kept of the lowering of this definition
      lowering(body, status, err, reached, after, value) ==
        [at |-> self.start, is_entry_point |-> is_entry_point,
         status |-> status, err |-> err, reached |-> reached,
         before |-> body.st.entrypoint, after |-> after, value |-> value]
      finished(body, result, recorded) ==
        IF ~recorded.ok
        THEN GenErr("MultipleEntryPoints", self.start,
                    [result.st EXCEPT !.lowerings =
                       Append(@, lowering(body, "err", "MultipleEntryPoints",
                                          TRUE, recorded.entrypoint,
                                          result.value))],
                    <<>>)
        ELSE GenOk(result.value,
                   [result.st EXCEPT
                      !.entrypoint = recorded.entrypoint,
                      !.lowerings =
                         Append(@, lowering(body, "ok", "", TRUE,
                                            recorded.entrypoint,
                                            result.value))],
                   <<>>)
      checked(body, result) ==
        finished(body, result,
                 record_entry_point(result.st.entrypoint, is_entry_point,
                                    result.value))
      lowered(function, body) ==
        IF body.status # "ok"
        THEN [body EXCEPT
                !.local_variables = <<>>,
                !.st.lowerings =
                   Append(@, lowering(body, body.status, body.err, FALSE,
                                      body.st.entrypoint, NoValue))]
        ELSE checked(body,
                     build(body.st, "ptr_to_int", <<FunctionValue(function)>>,
                           main_data.int_bit_width, "fn_ptr_to_int"))
      entered(function, at_entry) ==
        lowered(function,
                IF is_link_function
                THEN lower_link(self, main_data, at_entry, function, name)
                ELSE lower_ordinary(self, main_data, at_entry, function))
      added(with_function) ==
        entered(Len(with_function.functions),
                position_at_end(with_function, Len(with_function.functions)))
  IN  CASE self.kind = "Metadata" /\ self.metadata = "EntryPoint" ->
             build_function_definition(self.children[1], main_data, st, name,
                                       is_link_function, TRUE)
        [] self.kind = "Metadata" /\ self.metadata = "Link" ->
             build_function_definition(self.children[1], main_data, st, name,
                                       TRUE, is_entry_point)
        [] self.kind = "FunctionDefinition" ->
             IF Len(self.children) - 1 > u16_MAX
             THEN GenErr("TooManyFunctionParameters", self.start, st, <<>>)
             ELSE added(add_function(
                          st,
                          IF is_link_function THEN "__bcz__link__" \o name
                          ELSE name,
                          [i \in 1..(Len(self.children) - 1) |->
                             main_data.int_bit_width],
                          main_data.int_bit_width, ""))
        [] OTHER -> GenPanic("unreachable!()", st, <<>>)

build_r_value(self, main_data, st, local_variables, basic_block) ==
  LET err(e) == GenErr(e, self.start, st, local_variables)
      \* the instruction `op` built on the value of an outcome
      given(operand, result) ==
        GenOk(result.value, result.st, operand.local_variables)
      built_on(operand, op) ==
        IF operand.status # "ok" THEN operand
        ELSE given(operand,
                   build(operand.st, op, <<operand.value>>,
                         main_data.int_bit_width, op))
      \* a nested function definition, and the builder back in the block
      repositioned(out) ==
        IF out.status # "ok"
        THEN [out EXCEPT !.local_variables = local_variables]
        ELSE [out EXCEPT
                !.local_variables = local_variables,
                !.st = IF basic_block.some
                       THEN position_at_end(out.st, basic_block.block)
                       ELSE out.st]
      \* an assignment
      stored(r_value, l_value) ==
        IF l_value.status # "ok" THEN l_value
        ELSE GenOk(r_value.value,
                   build(l_value.st, "store",
                         <<l_value.value, r_value.value>>, 0, "").st,
                   l_value.local_variables)
      assigned(r_value) ==
        IF r_value.status # "ok" THEN r_value
        ELSE stored(r_value,
                    build_l_value(self.children[1], main_data, r_value.st,
                                  r_value.local_variables))
      \* an operation on two operands
      operated(operands) ==
        IF operands.status # "ok" THEN operands
        ELSE given(operands,
                   build(operands.st, self.operation, operands.values,
                         main_data.int_bit_width, self.operation))
      \* a block
      closed(built) ==
        IF built.status # "ok" THEN built
        ELSE GenOk(IF self.result_is_undefined \/ self.children = <<>>
                   THEN undefined ELSE built.value,
                   built.st, pop_scope(built.local_variables))
      \* a call
      called(built, function_pointer) ==
        given(built,
              build(function_pointer.st, "call",
                    <<function_pointer.value>> \o Tail(built.values),
                    main_data.int_bit_width, "function_call_temp"))
      pointed(built) ==
        IF built.status # "ok" THEN built
        ELSE called(built,
                    build(built.st, "int_to_ptr", <<built.values[1]>>, 0,
                          "int_to_ptr_temp"))
  IN
  returned_from("build_r_value", self, st, local_variables, basic_block,
  IF is_function(self)
  THEN repositioned(build_function_definition(self, main_data, st,
                                              "__bcz__unnamedFunction", FALSE,
                                              FALSE))
  ELSE
  CASE self.kind = "Constant" ->
         GenOk(const_int(self.value), st, local_variables)
    [] self.kind = "Identifier" ->
         get_variable_by_name(main_data, st, local_variables, self.name,
                              self.start)
    [] self.kind = "Operator" /\ self.operator = "Assignment" ->
         assigned(build_r_value(self.children[2], main_data, st,
                                local_variables, basic_block))
    [] self.kind = "Operator" /\ self.operator = "Normal" ->
         CASE self.operation \in BinaryOperations ->
                operated(build_each(SubSeq(self.children, 1, 2), 1, main_data,
                                    st, local_variables, basic_block))
           [] self.operation = "IntegerNegate" ->
                built_on(build_r_value(self.children[1], main_data, st,
                                       local_variables, basic_block),
                         "negate")
           [] self.operation = "Dereference" ->
                built_on(built_on(build_r_value(self.children[1], main_data,
                                                st, local_variables,
                                                basic_block),
                                  "int_to_ptr"),
                         "load")
           [] self.operation = "Read" ->
                built_on(build_l_value(self.children[1], main_data, st,
                                       local_variables),
                         "load")
           [] self.operation = "TakeReference" ->
                built_on(build_l_value(self.children[1], main_data, st,
                                       local_variables),
                         "ptr_to_int")
           [] OTHER -> err("FeatureNotYetImplemented")
    [] self.kind = "Operator"
         /\ self.operator \in {"Augmented", "LValueAssignment"} ->
         err("FeatureNotYetImplemented")
    [] self.kind = "Block" ->
         IF self.result_is_undefined /\ self.children = <<>>
         THEN GenOk(undefined, st, local_variables)
         ELSE IF local_variables = <<>>
         THEN err("FeatureNotYetImplemented")
         ELSE closed(build_each(self.children, 1, main_data, st,
                                Append(local_variables,
                                       Scope(EmptyTable, Span(self))),
                                basic_block))
    [] self.kind = "FunctionCall" ->
         IF local_variables = <<>> THEN err("FeatureNotYetImplemented")
         ELSE IF Len(self.children) - 1 > u16_MAX
         THEN err("TooManyFunctionArguments")
         ELSE pointed(build_each(self.children, 1, main_data, st,
                                 local_variables, basic_block))
    [] self.kind = "String" -> err("FeatureNotYetImplemented")
    [] OTHER -> GenPanic("unreachable!()", st, local_variables))

\* Module::add_global with its initializer
add_global(st, name, initializer) ==
  [st EXCEPT !.globals = Append(@, [name |-> name,
                                    initializer |-> initializer])]

\* AstNode::build_global_assignment
build_global_assignment(self, main_data, st, name) ==
  LET assigned(r_value) ==
        IF r_value.status # "ok" THEN r_value
        ELSE [r_value EXCEPT !.st = add_global(@, name, r_value.value)]
  IN  IF is_function(self)
      THEN build_function_definition(self, main_data, st, name, FALSE, FALSE)
      ELSE assigned(build_r_value(self, main_data, st, <<>>, BlockNone))

\* The types build_function_definition reads for a link function: the
\* definition under the Metadata wrappers, type_from_width on each of its
\* parameters and on its body.
RECURSIVE link_types(_, _)
link_types(self, main_data) ==
  CASE self.kind = "Metadata" -> link_types(self.children[1], main_data)
    [] self.kind = "FunctionDefinition" ->
         [i \in DOMAIN self.children |->
            type_from_width(self.children[i], main_data)]
    [] OTHER -> <<>>

(***************************************************************************)
(* Constant folding (AstNode::const_evaluate).  The pass works in place    *)
(* and returns no error of its own; the outcome is the node as the call    *)
(* leaves it, and ok is FALSE when the call aborts on operands[0] of an    *)
(* IntegerNegate operator that has no operand.                             *)
(***************************************************************************)
\* The pass, were it to fold nothing.
const_evaluate_nothing(self, main_data, is_link_function) ==
  [ok |-> TRUE, node |-> self]

RECURSIVE const_evaluate(_, _, _)

const_evaluate(self, main_data, is_link_function) ==
  LET each(nodes, link) ==
        [i \in DOMAIN nodes |-> const_evaluate(nodes[i], main_data, link)]
      rebuilt(children) ==
        [ok |-> \A i \in DOMAIN children : children[i].ok,
         node |-> [self EXCEPT
                     !.children = [i \in DOMAIN children |-> children[i].node]]]
      negated(r) ==
        IF ~r.ok \/ self.operator # "Normal" \/ self.operation # "IntegerNegate"
        THEN r
        ELSE IF r.node.children = <<>> THEN [r EXCEPT !.ok = FALSE]
        ELSE IF r.node.children[1].kind # "Constant" THEN r
        ELSE [r EXCEPT
                !.node = [Constant(integer_negate(main_data,
                                                  r.node.children[1].value))
                            EXCEPT !.start = self.start, !.end = self.end]]
      parameters(link) ==
        IF link THEN each(SubSeq(self.children, 1, Len(self.children) - 1), FALSE)
        ELSE [i \in 1..(Len(self.children) - 1) |->
                [ok |-> TRUE, node |-> self.children[i]]]
  IN  CASE self.kind = "Operator" ->
             negated(rebuilt(each(self.children, is_link_function)))
        [] self.kind = "FunctionDefinition" ->
             rebuilt(parameters(is_link_function)
                       \o each(<<self.children[Len(self.children)]>>, FALSE))
        [] self.kind = "Metadata" ->
             rebuilt(each(self.children,
                          self.metadata = "Link"
                            \/ (self.metadata = "EntryPoint" /\ is_link_function)))
        [] self.kind \in {"Block", "FunctionCall"} ->
             rebuilt(each(self.children, is_link_function))
        [] OTHER -> [ok |-> TRUE, node |-> self]

(***************************************************************************)
(* Trees given to the passes.  Positions are given to the nodes of a tree  *)
(* in source order: a node on line `line` starts at the column of its      *)
(* preorder rank and ends where its last descendant ends.                  *)
(***************************************************************************)
RECURSIVE Locate(_, _, _)
RECURSIVE LocateAll(_, _, _)

Locate(shape, line, col) ==
  LET ks == LocateAll(shape.children, line, col + 1)
  IN  [node |-> [shape EXCEPT !.children = ks.nodes, !.start = <<line, col>>,
                              !.end = <<line, ks.next>>],
       next |-> ks.next]

LocateAll(shapes, line, col) ==
  IF shapes = <<>> THEN [nodes |-> <<>>, next |-> col]
  ELSE LET h == Locate(Head(shapes), line, col)
           t == LocateAll(Tail(shapes), line, h.next)
       IN  [nodes |-> <<h.node>> \o t.nodes, next |-> t.next]

\* The tree of a shape written on the given line, from column 2 on.
OnLine(shape, line) == Locate(shape, line, dummy_number + 1).node

Five == Constant(U64Of(5))

Seven == Constant(U64Of(7))

Assign(target, operand) == Operator("Assignment", "", <<target, operand>>)

Add(a, b) == Operator("Normal", "IntegerAdd", <<a, b>>)

CallF == FunctionCall(Identifier("f"), <<Five>>)

\* Trees for global separation.
SepAtoms ==
  {Five, Seven, Identifier("x"), String("s"), Block(<<>>, TRUE), CallF,
   FunctionDefinition(<<Identifier("x")>>, Assign(Identifier("x"), Five))}

SepTargets == {Identifier("x"), Identifier("y"), Five}

SepAssignments ==
  {Assign(l, r) : l \in SepTargets, r \in SepAtoms}

SepNested ==
  {Assign(l, r) :
     l \in {Identifier("x"), Identifier("y")},
     r \in {Assign(l2, r2) : l2 \in {Identifier("x"), Identifier("y")},
                             r2 \in {Five, CallF}}
           \cup {Block(<<Assign(Identifier("x"), Five)>>, FALSE),
                 Add(Assign(Identifier("y"), Five), Seven)}}

SepStatements == SepAtoms \cup SepAssignments \cup SepNested

SepWrapped ==
  {Block(<<s>>, u) : s \in SepStatements, u \in BOOLEAN}
    \cup {Metadata("EntryPoint", s) : s \in SepStatements}
    \cup {Operator("Normal", "Read", <<s>>) : s \in SepStatements}

SepOperands ==
  {Five, CallF, Assign(Identifier("x"), Five), Assign(Identifier("x"), Seven),
   Assign(Identifier("y"), Five), Block(<<Assign(Identifier("x"), Five)>>, FALSE),
   Operator("Augmented", "IntegerAdd", <<Identifier("x"), Five>>)}

SepSums == {Add(a, b) : a, b \in SepOperands}

SepRejected ==
  {Block(<<>>, FALSE), Block(<<Five, Seven>>, FALSE),
   Block(<<Five, Seven>>, TRUE),
   Operator("Augmented", "IntegerAdd", <<Identifier("x"), Five>>),
   Operator("LValueAssignment", "", <<Identifier("x"), Five>>)}

\* The root nodes of a first call, on line 2 ...
SepRoots ==
  {OnLine(s, 2) :
     s \in SepStatements \cup SepWrapped \cup SepSums \cup SepRejected}

\* ... and those of a later call with the table the earlier calls filled, on
\* line 3.
SepLaterRoots ==
  {OnLine(s, 3) :
     s \in {Assign(Identifier("x"), Seven), Assign(Identifier("y"), Seven),
            Assign(Identifier("y"), Assign(Identifier("x"), Seven)),
            Assign(Identifier("z"), Assign(Identifier("y"), Seven)),
            Add(Assign(Identifier("y"), Five), Assign(Identifier("x"), Seven)),
            Add(Identifier("x"), Seven), CallF}}

\* Trees for dependency analysis: function bodies ...
NegFour == Constant(<<Limb - 4, Limb - 1, Limb - 1, Limb - 1>>)

DepBodies ==
  {Five, String("s"), Identifier("a"), Identifier("g"),
   Add(Identifier("a"), Identifier("g")),
   Block(<<Assign(Identifier("g"), Five),
           Add(Identifier("g"), Identifier("b"))>>, FALSE),
   Block(<<Identifier("g"), Assign(Identifier("g"), Five)>>, FALSE),
   Block(<<FunctionCall(Identifier("f"), <<Assign(Identifier("g"), Five)>>),
           Identifier("g")>>, FALSE),
   Block(<<Assign(CallF, Five), Identifier("g")>>, FALSE),
   Block(<<Identifier("g"), Assign(CallF, Five)>>, FALSE),
   FunctionCall(Identifier("f"),
                <<Assign(Identifier("g"), Five),
                  Add(Identifier("g"), Identifier("a"))>>),
   FunctionCall(Block(<<Assign(Identifier("g"), Five), Identifier("f")>>, FALSE),
                <<Identifier("g")>>),
   Block(<<Assign(Identifier("a"), Five),
           FunctionCall(Identifier("f"),
                        <<Assign(Identifier("g"), Five),
                          Add(Identifier("g"), Identifier("a"))>>),
           Identifier("g")>>, FALSE),
   Block(<<Add(Identifier("a"), Identifier("g")),
           Metadata("Link", FunctionDefinition(<<Identifier("a"), Five>>,
                                               NegFour))>>, FALSE),
   FunctionDefinition(<<Identifier("b")>>, Add(Identifier("a"), Identifier("b"))),
   FunctionDefinition(<<Five>>, Identifier("g")),
   Metadata("Link", FunctionDefinition(<<Identifier("a"), Five>>, NegFour)),
   Metadata("Link", Identifier("g")),
   Metadata("Link", Metadata("EntryPoint", Identifier("g"))),
   Metadata("EntryPoint", Metadata("Link", Five)),
   Metadata("Link", Metadata("Link", Identifier("g"))),
   Metadata("Link", Metadata("Link", FunctionDefinition(<<Five>>, NegFour))),
   Operator("Normal", "Read", <<Identifier("g")>>),
   Operator("Normal", "TakeReference", <<Identifier("g")>>),
   Operator("Normal", "Dereference", <<Identifier("g")>>),
   Operator("Normal", "IntegerNegate", <<Identifier("a")>>),
   Block(<<Operator("Normal", "Read", <<Identifier("g")>>),
           Identifier("g")>>, FALSE),
   Block(<<Operator("Normal", "TakeReference", <<Identifier("g")>>),
           Assign(Identifier("b"), Identifier("g"))>>, FALSE),
   Operator("Augmented", "IntegerAdd", <<Identifier("g"), Identifier("a")>>),
   Operator("Augmented", "IntegerNegate", <<Identifier("g")>>),
   Operator("LValueAssignment", "", <<Identifier("g"), Identifier("a")>>),
   Assign(Block(<<Identifier("g")>>, FALSE), Five),
   Assign(Block(<<>>, TRUE), Identifier("g")),
   Assign(FunctionDefinition(<<>>, Five), Identifier("g")),
   Assign(Metadata("EntryPoint", Identifier("b")), Identifier("b"))}

\* ... parameter lists ...
DepParameters ==
  {<<>>, <<Identifier("a")>>, <<Identifier("a"), Identifier("b")>>, <<Five>>,
   <<Identifier("g"), Five>>}

DepFunctions ==
  {FunctionDefinition(p, body) : p \in DepParameters, body \in DepBodies}

\* ... and the defining expressions of globals.
DepRoots ==
  {OnLine(s, 2) :
     s \in DepFunctions
           \cup {Metadata("Link", f) : f \in DepFunctions}
           \cup {Metadata("EntryPoint", f) : f \in DepFunctions}
           \cup {Metadata("Link", Metadata("EntryPoint", f)) : f \in DepFunctions}
           \cup DepBodies}

\* Trees for code generation.  The constant a unit of the given integer
\* width holds for -n is the folded negation of n.
Negative(main_data, n) == Constant(integer_negate(main_data, U64Of(n)))

Plain == FunctionDefinition(<<>>, Five)

\* Globals with and without entry points ...
EntryGlobals(main_data) ==
  {Plain, Five,
   Metadata("EntryPoint", Plain),
   Metadata("EntryPoint", FunctionDefinition(<<>>, String("s"))),
   Metadata("EntryPoint",
            FunctionDefinition(<<>>, Metadata("EntryPoint", Plain))),
   FunctionDefinition(<<Identifier("a")>>, Metadata("EntryPoint", Plain)),
   Metadata("EntryPoint",
            Metadata("Link", FunctionDefinition(<<Constant(U64Of(1))>>,
                                                Negative(main_data, 4))))}

MaxUnitLen == 3

EntryUnits(main_data) ==
  UNION {[1..n -> EntryGlobals(main_data)] : n \in 1..MaxUnitLen}

\* ... functions with nested blocks: what comes before the nested block,
\* the nested block, and what comes after it ...
ScopeBefore == {<<>>, <<Assign(Identifier("x"), Seven)>>, <<Identifier("x")>>}

ScopeBlocks ==
  {Block(<<Assign(Identifier("x"), Five), Identifier("x")>>, FALSE),
   Block(<<Assign(Identifier("x"), Five),
           FunctionDefinition(<<>>, Identifier("x")),
           Identifier("x")>>, FALSE),
   Block(<<Assign(Identifier("x"), Five),
           Block(<<Identifier("x")>>, FALSE)>>, TRUE),
   Block(<<Block(<<Assign(Identifier("x"), Five)>>, FALSE),
           Identifier("x")>>, FALSE),
   Block(<<Assign(Identifier("x"), Identifier("x")),
           Add(Identifier("x"), Identifier("x"))>>, FALSE),
   Block(<<Operator("Normal", "Read", <<Identifier("x")>>),
           FunctionCall(Identifier("x"), <<Identifier("x")>>)>>, FALSE),
   Block(<<Assign(Identifier("x"), Five),
           FunctionDefinition(
             <<>>, Block(<<Operator("Normal", "Read", <<Identifier("x")>>),
                           Identifier("x")>>, FALSE))>>, FALSE),
   Block(<<Assign(Identifier("x"), Five), String("s")>>, FALSE)}

ScopeAfter ==
  {<<>>, <<Identifier("x")>>,
   <<Assign(Identifier("x"), Seven), Identifier("x")>>,
   <<Block(<<Identifier("x")>>, FALSE)>>,
   <<Operator("Normal", "IntegerNegate", <<Identifier("x")>>)>>}

ScopeFunctions ==
  {FunctionDefinition(p, Block(b \o <<n>> \o a, FALSE)) :
     p \in {<<>>, <<Identifier("x")>>, <<Identifier("a")>>},
     b \in ScopeBefore, n \in ScopeBlocks, a \in ScopeAfter}

ScopeUnits ==
  {<<Five, f>> : f \in ScopeFunctions} \cup {<<f>> : f \in ScopeFunctions}

\* ... and link functions: the nodes in type position ...
LinkTypes(main_data) ==
  {Constant(U64Of(1)), Constant(U64Of(4)), Constant(U64Of(8)),
   Constant(U64Of(16)), Negative(main_data, 2), Negative(main_data, 4),
   Negative(main_data, 8), Constant(U64Of(3)), Identifier("a")}

LinkFunctions(main_data) ==
  {Metadata("Link", FunctionDefinition(p, r)) :
     p \in UNION {[1..n -> LinkTypes(main_data)] : n \in 0..2},
     r \in LinkTypes(main_data)}

LinkUnits(main_data) == {<<f>> : f \in LinkFunctions(main_data)}

GlobalNames == <<"x", "y", "z", "w", "v">>

\* The globals of a unit in the order they are built, global i on line
\* i + 1.
Unit(shapes) ==
  [i \in DOMAIN shapes |->
     [name |-> GlobalNames[i],
      node |-> OnLine(shapes[i], i + dummy_number)]]

\* ... and functions whose bodies have operands, arguments and statements
\* that each build something.
OrderBodies ==
  {Assign(Identifier("x"), Add(Identifier("a"), Identifier("a"))),
   Assign(Identifier("x"), Assign(Identifier("y"), Identifier("a"))),
   Add(Assign(Identifier("x"), Identifier("a")),
       Assign(Identifier("y"), Identifier("x"))),
   Add(Add(Identifier("a"), Five), Add(Seven, Identifier("a"))),
   Add(Operator("Normal", "IntegerNegate", <<Identifier("a")>>),
       Operator("Normal", "Read", <<Identifier("x")>>)),
   FunctionCall(Identifier("a"),
                <<Assign(Identifier("x"), Identifier("a")), Identifier("x"),
                  Add(Five, Seven)>>),
   Assign(Identifier("x"), FunctionDefinition(<<>>, Five)),
   Add(FunctionDefinition(<<>>, Five), Identifier("a")),
   Add(Identifier("a"), FunctionDefinition(<<>>, String("s"))),
   Add(Metadata("EntryPoint", FunctionDefinition(<<Five>>, Five)),
       Identifier("a"))}

OrderFunctions ==
  {FunctionDefinition(<<Identifier("a")>>, b) : b \in OrderBodies}
    \cup {FunctionDefinition(<<Identifier("a")>>, Block(<<b, c>>, u)) :
            b, c \in OrderBodies, u \in BOOLEAN}

OrderUnits == {<<f>> : f \in OrderFunctions}

\* ... and blocks of every shape, as the defining expression of a global
\* and in the body of a function.
BalanceBlocks ==
  {Block(<<>>, TRUE), Block(<<>>, FALSE), Block(<<Five>>, FALSE),
   Block(<<Five, Seven>>, TRUE),
   Block(<<Assign(Identifier("x"), Five), Identifier("x")>>, FALSE),
   Block(<<Block(<<>>, TRUE)>>, FALSE),
   Block(<<Block(<<>>, FALSE), Block(<<Seven>>, TRUE)>>, FALSE)}

BalanceUnits ==
  {<<b>> : b \in BalanceBlocks}
    \cup {<<Add(b, Five)>> : b \in BalanceBlocks}
    \cup {<<FunctionDefinition(<<Identifier("a")>>, b)>> : b \in BalanceBlocks}
    \cup {<<FunctionDefinition(<<>>, Add(Assign(Identifier("x"), b), c))>> :
            b, c \in BalanceBlocks}

\* ... and Metadata over what is a function and over what is not.
MetadataUnits ==
  {<<Metadata("EntryPoint", Five)>>, <<Metadata("Link", Five)>>,
   <<Metadata("EntryPoint", Metadata("EntryPoint", Identifier("a")))>>,
   <<Add(Metadata("EntryPoint", Five), Seven)>>,
   <<FunctionDefinition(<<>>, Metadata("EntryPoint", Five))>>,
   <<FunctionDefinition(<<>>, Metadata("Link", Five))>>,
   <<FunctionDefinition(<<>>, Metadata("EntryPoint", Plain))>>}

GenUnits(main_data) ==
  {Unit(u) : u \in EntryUnits(main_data) \cup ScopeUnits
                     \cup LinkUnits(main_data) \cup OrderUnits
                     \cup BalanceUnits \cup MetadataUnits}

\* Trees for constant folding: negations of constants and of what is not a
\* constant, alone and in every place a tree has.
Negate(operand) == Operator("Normal", "IntegerNegate", <<operand>>)

FoldConstants(main_data) ==
  {Constant(v) : v \in {U64Zero, U64Of(1), U64Of(5), main_data.sign_bit_mask,
                        main_data.int_max_value}}

FoldFunctions ==
  {FunctionDefinition(<<Negate(Five)>>, Negate(Seven)),
   FunctionDefinition(<<Identifier("a"), Negate(Constant(U64Of(1)))>>,
                      Block(<<Negate(Identifier("a")), Negate(Five)>>, FALSE)),
   FunctionDefinition(<<>>, FunctionDefinition(<<Negate(Five)>>,
                                               Identifier("a")))}

FoldShapes(main_data) ==
  FoldConstants(main_data)
    \cup {Negate(c) : c \in FoldConstants(main_data)}
    \cup {Negate(Negate(c)) : c \in FoldConstants(main_data)}
    \cup {Negate(Identifier("x")), Negate(String("s")),
          Negate(Add(Five, Seven)), Add(Negate(Five), Negate(Seven)),
          Add(Negate(Five), Identifier("x")),
          Assign(Identifier("x"), Negate(Five)),
          Operator("Augmented", "IntegerNegate", <<Five>>),
          Operator("Normal", "Read", <<Negate(Five)>>),
          Block(<<Negate(Five), Identifier("x"), Negate(Negate(Seven))>>, FALSE),
          FunctionCall(Negate(Five), <<Negate(Seven), Identifier("x")>>)}
    \cup FoldFunctions
    \cup {Metadata(m, f) : m \in {"Link", "EntryPoint"}, f \in FoldFunctions}
    \cup {Metadata("EntryPoint", Metadata("Link", f)) : f \in FoldFunctions}
    \cup {Metadata("Link", Block(<<f>>, FALSE)) : f \in FoldFunctions}

FoldRoots(main_data) == {OnLine(t, dummy_number) : t \in FoldShapes(main_data)}

\* Link functions as they are written: in type position a byte width, or
\* the negation of one for a signed type.
WrittenTypes ==
  {Constant(U64Of(n)) : n \in {1, 2, 3, 4, 8, 16}}
    \cup {Negate(Constant(U64Of(n))) : n \in {1, 2, 3, 4, 8, 16}}
    \cup {Identifier("a")}

WrittenLinkFunctions ==
  {FunctionDefinition(p, r) :
     p \in {<<>>} \cup {<<t>> : t \in WrittenTypes}
            \cup {<<Negate(Constant(U64Of(4))), t>> : t \in WrittenTypes},
     r \in WrittenTypes}

WrittenLinkRoots ==
  {OnLine(t, dummy_number + 1) :
     t \in {Metadata("Link", f) : f \in WrittenLinkFunctions}
            \cup {Metadata("EntryPoint", Metadata("Link", f)) :
                    f \in WrittenLinkFunctions}
            \cup {Metadata("Link", Metadata("EntryPoint", f)) :
                    f \in WrittenLinkFunctions}}

\* Nodes in type position: the constants up to MaxWidth, their negations,
\* the constants around the sign bit, and what is not a constant.
MaxWidth == 17

WidthShapes(main_data) ==
  {Constant(U64Of(n)) : n \in 0..MaxWidth}
    \cup {Negative(main_data, n) : n \in 1..MaxWidth}
    \cup {Constant(main_data.sign_bit_mask), Constant(main_data.int_max_value),
          Constant(wrapping_add(main_data.sign_bit_mask, 1)),
          Constant(U64Xor(main_data.sign_bit_mask, main_data.int_max_value)),
          Constant(U64Of(256)), Identifier("a"), String("s"),
          Negate(Constant(U64Of(4))), Block(<<>>, TRUE),
          Block(<<Constant(U64Of(4))>>, FALSE),
          FunctionCall(Identifier("f"), <<Constant(U64Of(4))>>),
          FunctionDefinition(<<>>, Constant(U64Of(4))),
          Metadata("EntryPoint", Constant(U64Of(4)))}

\* Scope stacks for build_l_value: the empty stack build_global_assignment
\* starts from, and the stacks inside a function, the scope of the function
\* with up to MaxBlocks block scopes on it, each scope binding some of the
\* names; a slot was allocated for every name bound.
MaxBlocks == 2

ScopeNames == {<<>>, <<"x">>, <<"y">>, <<"x", "y">>}

StackShapes == UNION {[1..d -> ScopeNames] : d \in 0..(MaxBlocks + 1)}

RECURSIVE Bound(_, _, _)
Bound(names, width, acc) ==
  LET bound(alloca) ==
        [st |-> alloca.st,
         local_variables |->
           [acc.local_variables EXCEPT
              ![Len(acc.local_variables)].variables =
                 insert(@, Head(names), alloca.value)]]
  IN  IF names = <<>> THEN acc
      ELSE Bound(Tail(names), width,
                 bound(build(acc.st, "alloca", <<>>, width, Head(names))))

RECURSIVE Stacked(_, _, _, _)
Stacked(shape, i, width, acc) ==
  IF i > Len(shape) THEN acc
  ELSE Stacked(shape, i + 1, width,
               Bound(shape[i], width,
                     [acc EXCEPT !.local_variables =
                        Append(@, Scope(EmptyTable,
                                        <<<<dummy_number + 1, i + 1>>,
                                          <<dummy_number + 1, 9>>>>))]))

\* The build state and the scope stack of a shape.
Stack(shape, width) ==
  Stacked(shape, 1, width,
          [st |-> IF shape = <<>> THEN EmptyBuild
                  ELSE position_at_end(add_function(EmptyBuild, "x", <<>>,
                                                    width, ""), 1),
           local_variables |-> <<>>])

LValueShapes ==
  {Identifier("x"), Identifier("y"), Identifier("z"), Five, String("s"),
   CallF, Plain, Metadata("EntryPoint", Plain), Metadata("Link", Plain),
   Metadata("EntryPoint", Identifier("x")), Block(<<>>, TRUE),
   Block(<<Identifier("x")>>, FALSE), Add(Identifier("x"), Five),
   Assign(Identifier("x"), Five),
   Operator("Normal", "Dereference", <<Identifier("x")>>)}

LValueNodes == {Locate(t, dummy_number + 1, 7).node : t \in LValueShapes}

WidthNodes(main_data) ==
  {Locate(t, dummy_number + 1, col).node :
     t \in WidthShapes(main_data), col \in {3, 4}}

(***************************************************************************)
(* State                                                                   *)
(***************************************************************************)
VARIABLES
  main_data,          \* MainData: the integer width and what derives from it
  line_content,       \* lexer: the text still to tokenize
  tk_result,          \* lexer: the outcome of the last tokenize_from_line call
  root_node,          \* separation: the root node the pass works on, in place
  global_list,        \* separation: the global table, name -> node
  will_be_discarded,  \* separation: the discard flag of the call
  sep_result,         \* separation: the outcome of the last call
  sep_before,         \* separation: root node and table as the last call found them
  sep_second,         \* separation: the last call ran on what a successful call left
  dep_node,               \* dependencies: the node of the call
  variable_dependencies,  \* dependencies: the set of global names read
  local_variables,        \* dependencies: the set of local names
  is_l_value,             \* dependencies: the node is an assignment target
  is_link_function,       \* dependencies: the node is under Metadata::Link
  dep_result,             \* dependencies: the outcome of the last call
  dep_before,             \* dependencies: the two sets as the last call found them
  gen_unit,         \* code generation: the globals of the unit, in build order
  gen_built,        \* code generation: how many of them have been built
  file_build_data,  \* FileBuildData: entrypoint and built_globals
  llvm_module,      \* the module: functions, globals and instructions built
  llvm_builder,     \* the builder: the function it is positioned in
  gen_log,          \* code generation: bindings, lookups and lowerings so far
  gen_result,       \* code generation: the outcome of the last global built
  call_self,        \* a call on one node: the node, in place
  call_args,        \* a call on one node: the other arguments
  call_return       \* a call on one node: the outcome of the call

LexVars == <<line_content, tk_result>>

SepVars ==
  <<root_node, global_list, will_be_discarded, sep_result, sep_before,
    sep_second>>

DepVars ==
  <<dep_node, variable_dependencies, local_variables, is_l_value,
    is_link_function, dep_result, dep_before>>

GenVars ==
  <<gen_unit, gen_built, file_build_data, llvm_module, llvm_builder, gen_log,
    gen_result>>

CallVars == <<call_self, call_args, call_return>>

vars == <<main_data, LexVars, SepVars, DepVars, GenVars, CallVars>>

MainDataInit == main_data \in {MainData(w) : w \in IntBitWidths}

\* The values the variables of a component hold while another one runs.
LexIdle == line_content = <<>> /\ tk_result = TokNone

SepNone == [status |-> "none", err |-> "", name |-> "", at |-> <<0, 0>>,
            inserts |-> <<>>]

SepIdle ==
  /\ root_node = DummyNode
  /\ global_list = EmptyTable
  /\ will_be_discarded = FALSE
  /\ sep_result = SepNone
  /\ sep_before = [node |-> DummyNode, global_list |-> EmptyTable]
  /\ sep_second = FALSE

DepNone == [status |-> "none", err |-> "", at |-> <<0, 0>>, added |-> <<>>,
            calls |-> <<>>]

DepIdle ==
  /\ dep_node = DummyNode
  /\ variable_dependencies = {}
  /\ local_variables = {}
  /\ is_l_value = FALSE
  /\ is_link_function = FALSE
  /\ dep_result = DepNone
  /\ dep_before = [variable_dependencies |-> {}, local_variables |-> {}]

GenNone == [status |-> "none", err |-> "", at |-> <<0, 0>>, value |-> NoValue]

GenIdle ==
  /\ gen_unit = <<>>
  /\ gen_built = 0
  /\ file_build_data = [entrypoint |-> NoEntryPoint, built_globals |-> EmptyTable]
  /\ llvm_module = [functions |-> <<>>, globals |-> <<>>, instructions |-> <<>>]
  /\ llvm_builder = 0
  /\ gen_log = [events |-> <<>>, lowerings |-> <<>>, builds |-> <<>>]
  /\ gen_result = GenNone

CallNone == [status |-> "none", before |-> DummyNode, outcome |-> <<>>]

CallIdle ==
  /\ call_self = DummyNode
  /\ call_args = <<>>
  /\ call_return = CallNone

(***************************************************************************)
(* SpecLex: the lexer                                                      *)
(***************************************************************************)
LexInit ==
  /\ MainDataInit
  /\ line_content \in LexLines
  /\ tk_result = TokNone
  /\ SepIdle
  /\ DepIdle
  /\ GenIdle
  /\ CallIdle

\* A call of tokenize_from_line on the text still to tokenize.
Tokenize ==
  /\ tk_result.status = "none"
  /\ line_content # <<>>
  /\ tk_result' = tokenize_from_line(main_data, line_content)
  /\ UNCHANGED <<main_data, line_content, SepVars, DepVars, GenVars, CallVars>>

\* The caller goes on with the remainder the call returned.
TokenizeRest ==
  /\ tk_result.status = "ok"
  /\ tk_result.rest # <<>>
  /\ line_content' = tk_result.rest
  /\ tk_result' = TokNone
  /\ UNCHANGED <<main_data, SepVars, DepVars, GenVars, CallVars>>

LexNext == Tokenize \/ TokenizeRest

SpecLex == LexInit /\ [][LexNext]_vars

(***************************************************************************)
(* SpecSep: global separation.  A compilation separates a root node with   *)
(* an empty table; a root node separated later finds the table the         *)
(* earlier calls filled.  An error ends the compilation.                   *)
(***************************************************************************)
SepInit ==
  /\ main_data = MainData(64)
  /\ LexIdle
  /\ DepIdle
  /\ GenIdle
  /\ CallIdle
  /\ root_node \in SepRoots
  /\ global_list = EmptyTable
  /\ will_be_discarded \in BOOLEAN
  /\ sep_result = SepNone
  /\ sep_before = [node |-> root_node, global_list |-> EmptyTable]
  /\ sep_second = FALSE

\* A call separate_globals(&mut root_node, &mut global_list, will_be_discarded).
Separate ==
  /\ sep_result.status # "err"
  /\ LET r == separate_globals(root_node, global_list, will_be_discarded)
     IN  /\ root_node' = r.node
         /\ global_list' = r.global_list
         /\ sep_result' = [status |-> IF r.ok THEN "ok" ELSE "err",
                           err |-> r.err, name |-> r.name, at |-> r.at,
                           inserts |-> r.inserts]
  /\ sep_before' = [node |-> root_node, global_list |-> global_list]
  /\ sep_second' = (sep_result.status = "ok")
  /\ UNCHANGED <<main_data, LexVars, DepVars, will_be_discarded, GenVars,
                 CallVars>>

\* The compilation goes on to another root node, with the same table.
NextRoot ==
  /\ sep_result.status = "ok"
  /\ \E t \in SepLaterRoots, d \in BOOLEAN :
       /\ root_node' = t
       /\ will_be_discarded' = d
       /\ sep_before' = [node |-> t, global_list |-> global_list]
  /\ sep_result' = SepNone
  /\ sep_second' = FALSE
  /\ UNCHANGED <<main_data, LexVars, DepVars, global_list, GenVars, CallVars>>

SepNext == Separate \/ NextRoot

SpecSep == SepInit /\ [][SepNext]_vars

(***************************************************************************)
(* SpecDeps: dependency analysis.  The analysis of a global starts on its  *)
(* defining expression with empty sets; every call the analysis makes on   *)
(* the way can be looked at with the arguments it was given.               *)
(***************************************************************************)
DepInit ==
  /\ main_data = MainData(64)
  /\ LexIdle
  /\ SepIdle
  /\ GenIdle
  /\ CallIdle
  /\ dep_node \in DepRoots
  /\ variable_dependencies = {}
  /\ local_variables = {}
  /\ is_l_value = FALSE
  /\ is_link_function = FALSE
  /\ dep_result = DepNone
  /\ dep_before = [variable_dependencies |-> {}, local_variables |-> {}]

\* A call dep_node.get_variable_dependencies(&mut variable_dependencies, ..,
\* &mut local_variables, is_l_value, is_link_function).
GetDependencies ==
  /\ dep_result.status = "none"
  /\ LET r == get_variable_dependencies(dep_node, variable_dependencies,
                                        local_variables, is_l_value,
                                        is_link_function)
     IN  /\ variable_dependencies' = r.variable_dependencies
         /\ local_variables' = r.local_variables
         /\ dep_result' = [status |-> IF r.ok THEN "ok" ELSE "err",
                           err |-> r.err, at |-> r.at, added |-> r.added,
                           calls |-> r.calls]
  /\ dep_before' = [variable_dependencies |-> variable_dependencies,
                    local_variables |-> local_variables]
  /\ UNCHANGED <<main_data, LexVars, SepVars, dep_node, is_l_value,
                 is_link_function, GenVars, CallVars>>

\* One of the calls the last call made, as it was entered.
EnterCall ==
  /\ dep_result.status # "none"
  /\ \E i \in 2..Len(dep_result.calls) :
       LET c == dep_result.calls[i]
       IN  /\ dep_node' = c.node
           /\ variable_dependencies' = c.variable_dependencies
           /\ local_variables' = c.local_variables
           /\ is_l_value' = c.is_l_value
           /\ is_link_function' = c.is_link_function
           /\ dep_before' = [variable_dependencies |-> c.variable_dependencies,
                             local_variables |-> c.local_variables]
  /\ dep_result' = DepNone
  /\ UNCHANGED <<main_data, LexVars, SepVars, GenVars, CallVars>>

DepNext == GetDependencies \/ EnterCall

SpecDeps == DepInit /\ [][DepNext]_vars

(***************************************************************************)
(* SpecGen: code generation.  The globals of a unit are built one after    *)
(* the other; the value a global is built to goes into the table of built  *)
(* globals; an error ends the compilation of the unit.                     *)
(***************************************************************************)
GenInit ==
  /\ MainDataInit
  /\ LexIdle
  /\ SepIdle
  /\ DepIdle
  /\ CallIdle
  /\ gen_unit \in GenUnits(main_data)
  /\ gen_built = 0
  /\ file_build_data = [entrypoint |-> NoEntryPoint, built_globals |-> EmptyTable]
  /\ llvm_module = [functions |-> <<>>, globals |-> <<>>, instructions |-> <<>>]
  /\ llvm_builder = 0
  /\ gen_log = [events |-> <<>>, lowerings |-> <<>>, builds |-> <<>>]
  /\ gen_result = GenNone

\* The build state the variables hold.
GenState ==
  [entrypoint |-> file_build_data.entrypoint,
   built_globals |-> file_build_data.built_globals,
   functions |-> llvm_module.functions, globals |-> llvm_module.globals,
   instructions |-> llvm_module.instructions, position |-> llvm_builder,
   events |-> gen_log.events, lowerings |-> gen_log.lowerings,
   builds |-> gen_log.builds]

\* The next global of the unit is built: a call
\* node.build_global_assignment(main_data, llvm_module, llvm_builder,
\* file_build_data, name), and the value into built_globals.
BuildGlobal ==
  /\ gen_result.status \in {"none", "ok"}
  /\ gen_built < Len(gen_unit)
  /\ \E global \in {gen_unit[gen_built + 1]} :
     \E r \in {build_global_assignment(global.node, main_data, GenState,
                                       global.name)} :
         /\ file_build_data' =
              [entrypoint |-> r.st.entrypoint,
               built_globals |->
                 IF r.status = "ok"
                 THEN insert(r.st.built_globals, global.name, r.value)
                 ELSE r.st.built_globals]
         /\ llvm_module' = [functions |-> r.st.functions,
                            globals |-> r.st.globals,
                            instructions |-> r.st.instructions]
         /\ llvm_builder' = r.st.position
         /\ gen_log' = [events |-> r.st.events, lowerings |-> r.st.lowerings,
                        builds |-> r.st.builds]
         /\ gen_result' = [status |-> r.status, err |-> r.err, at |-> r.at,
                           value |-> r.value]
  /\ gen_built' = gen_built + 1
  /\ UNCHANGED <<main_data, LexVars, SepVars, DepVars, gen_unit, CallVars>>

GenNext == BuildGlobal

SpecGen == GenInit /\ [][GenNext]_vars

(***************************************************************************)
(* SpecFold: constant folding.  The pass is run on a tree, with the        *)
(* is_link_function flag either way.                                       *)
(***************************************************************************)
FoldInit ==
  /\ MainDataInit
  /\ LexIdle
  /\ SepIdle
  /\ DepIdle
  /\ GenIdle
  /\ call_self \in FoldRoots(main_data)
  /\ call_args \in [is_link_function : BOOLEAN]
  /\ call_return = CallNone

\* A call call_self.const_evaluate(main_data, .., is_link_function).
ConstEvaluate ==
  /\ call_return.status = "none"
  /\ \E r \in {const_evaluate(call_self, main_data,
                               call_args.is_link_function)} :
       /\ call_self' = r.node
       /\ call_return' = [status |-> IF r.ok THEN "ok" ELSE "panic",
                          before |-> call_self, outcome |-> <<>>]
  /\ UNCHANGED <<main_data, LexVars, SepVars, DepVars, GenVars, call_args>>

FoldNext == ConstEvaluate

SpecFold == FoldInit /\ [][FoldNext]_vars

(***************************************************************************)
(* SpecWidth: type_from_width on a node in type position.                  *)
(***************************************************************************)
WidthInit ==
  /\ MainDataInit
  /\ LexIdle
  /\ SepIdle
  /\ DepIdle
  /\ GenIdle
  /\ call_self \in WidthNodes(main_data)
  /\ call_args = <<>>
  /\ call_return = CallNone

\* A call call_self.type_from_width(main_data).
TypeFromWidth ==
  /\ call_return.status = "none"
  /\ \E r \in {type_from_width(call_self, main_data)} :
       call_return' = [status |-> IF r.ok THEN "ok" ELSE "err",
                       before |-> call_self, outcome |-> r]
  /\ UNCHANGED <<main_data, LexVars, SepVars, DepVars, GenVars, call_self,
                 call_args>>

WidthNext == TypeFromWidth

SpecWidth == WidthInit /\ [][WidthNext]_vars

(***************************************************************************)
(* SpecTypes: the types of a link function.  The defining expression of    *)
(* the global is folded, and code generation then reads the types of the   *)
(* external function from the parameters and the body of the definition.   *)
(***************************************************************************)
TypesInit ==
  /\ MainDataInit
  /\ LexIdle
  /\ SepIdle
  /\ DepIdle
  /\ GenIdle
  /\ call_self \in WrittenLinkRoots
  /\ \E flag \in BOOLEAN :
       call_args = [is_link_function |-> flag, written |-> call_self]
  /\ call_return = CallNone

\* The call of const_evaluate on the defining expression of the global.
FoldTypes ==
  /\ call_return.status = "none"
  /\ \E r \in {const_evaluate(call_self, main_data,
                               call_args.is_link_function)} :
       /\ call_self' = r.node
       /\ call_return' = [status |-> IF r.ok THEN "folded" ELSE "panic",
                          before |-> call_self, outcome |-> <<>>]
  /\ UNCHANGED <<main_data, LexVars, SepVars, DepVars, GenVars, call_args>>

\* build_function_definition reads the types from the folded definition.
ReadTypes ==
  /\ call_return.status = "folded"
  /\ call_return' = [status |-> "read", before |-> call_self,
                     outcome |-> link_types(call_self, main_data)]
  /\ UNCHANGED <<main_data, LexVars, SepVars, DepVars, GenVars, call_self,
                 call_args>>

TypesNext == FoldTypes \/ ReadTypes

SpecTypes == TypesInit /\ [][TypesNext]_vars

(***************************************************************************)
(* SpecLValue: build_l_value on a node, with a scope stack.                *)
(***************************************************************************)
LValueInit ==
  /\ MainDataInit
  /\ LexIdle
  /\ SepIdle
  /\ DepIdle
  /\ GenIdle
  /\ call_self \in LValueNodes
  /\ call_args \in {Stack(shape, main_data.int_bit_width) :
                      shape \in StackShapes}
  /\ call_return = CallNone

\* A call call_self.build_l_value(main_data, .., llvm_builder,
\* local_variables, ..).
BuildLValue ==
  /\ call_return.status = "none"
  /\ \E r \in {build_l_value(call_self, main_data, call_args.st,
                              call_args.local_variables)} :
       call_return' = [status |-> r.status, before |-> call_self,
                       outcome |-> r]
  /\ UNCHANGED <<main_data, LexVars, SepVars, DepVars, GenVars, call_self,
                 call_args>>

LValueNext == BuildLValue

SpecLValue == LValueInit /\ [][LValueNext]_vars

(***************************************************************************)
(* Claims about numerical literals (SpecLex).                              *)
(***************************************************************************)
\* The numerical literal at the start of the line: the maximal run of
\* alphanumeric characters, underscores and periods.
LiteralToken ==
  SubSeq(line_content, 1,
         FindNotOr(line_content, IsLiteralChar(line_content), Len(line_content)))

LiteralRest ==
  SubSeq(line_content, Len(LiteralToken) + 1, Len(line_content))

\* tokenize_from_line has been called on a line that starts with a digit.
LiteralCalled == tk_result.status # "none" /\ is_ascii_digit(line_content[1])

\* What the first two characters of a literal say about its base.
HasBasePrefix(t) == Len(t) >= 2 /\ t[1] = "0" /\ t[2] \in {"x", "o", "b"}

PrefixBase(t) ==
  IF HasBasePrefix(t)
  THEN CASE t[2] = "x" -> 16 [] t[2] = "o" -> 8 [] OTHER -> 2
  ELSE 10

HasFloatPrefix(t) == Len(t) >= 2 /\ t[1] = "0" /\ t[2] = "f"

HasBadBase(t) ==
  Len(t) >= 2 /\ t[1] = "0" /\ ~is_ascii_digit(t[2]) /\ t[2] \notin {"x", "o", "b", "f"}

LiteralBody(t) == IF HasBasePrefix(t) THEN SubSeq(t, 3, Len(t)) ELSE t

IsDigitRun(chars, base) ==
  \A i \in DOMAIN chars : chars[i] = "_" \/ DigitValue(chars[i]) < base

\* The digit values of a run, leading zeros kept.
RawDigits(chars) ==
  [i \in DOMAIN StripUnderscores(chars) |-> DigitValue(StripUnderscores(chars)[i])]

\* C4: for a literal with a supported base and a run of digits valid in it,
\* the call fails with NumericalLiteralTooLarge exactly when the positional
\* value of the digits exceeds int_max_value, and otherwise succeeds with
\* exactly that value; after every digit the accumulator holds the exact
\* value of the digits read so far (it never wraps) and is at most
\* int_max_value, also for int_max_value = 2^64 - 1.
C4_OverflowIffExceeds ==
  LET t == LiteralToken
      base == PrefixBase(t)
      ds == DigitsOf(LiteralBody(t))
      mx == ToDigits(main_data.int_max_value, base)
  IN  (LiteralCalled /\ ~HasFloatPrefix(t) /\ ~HasBadBase(t) /\ IsDigitRun(LiteralBody(t), base)) =>
        /\ (tk_result.status = "err" /\ tk_result.err = "NumericalLiteralTooLarge")
             <=> DigitsGt(ds, mx)
        /\ ~DigitsGt(ds, mx) =>
             /\ tk_result.status = "ok"
             /\ tk_result.variant = "NumericalLiteral"
             /\ ToDigits(tk_result.value, base) = ds
             /\ Len(tk_result.trail) = Len(RawDigits(LiteralBody(t)))
        /\ \A k \in DOMAIN tk_result.trail :
             /\ ToDigits(tk_result.trail[k], base)
                  = StripZeros(SubSeq(RawDigits(LiteralBody(t)), 1, k))
             /\ ~U64Gt(tk_result.trail[k], main_data.int_max_value)

\* A decimal literal one digit longer than 2^64 - 1 was rejected on a 64-bit
\* target after the accumulator had reached 2^64 - 1.
C4_Witness ==
  /\ LiteralCalled
  /\ main_data.int_bit_width = 64
  /\ tk_result.status = "err" /\ tk_result.err = "NumericalLiteralTooLarge"
  /\ HasBasePrefix(LiteralToken) = FALSE
  /\ tk_result.trail # <<>> 
  /\ tk_result.trail[Len(tk_result.trail)] = U64Max

\* The place of the first character of a run that is no digit of the base.
FirstBad(chars, base) ==
  CHOOSE j \in DOMAIN chars :
    /\ chars[j] # "_" /\ DigitValue(chars[j]) >= base
    /\ \A i \in 1..(j - 1) : chars[i] = "_" \/ DigitValue(chars[i]) < base

\* C5 as stated: the value is the positional value of the digits in the base
\* of the prefix; a leading 0 followed by a character other than a digit, x,
\* o, b, f fails with InvalidNumericalLiteralBase; a digit not valid in the
\* base fails with InvalidDigitForBase; 0f is rejected as not implemented.
C5_AsClaimed ==
  LET t == LiteralToken
      base == PrefixBase(t)
  IN  LiteralCalled =>
        /\ tk_result.status = "ok" =>
             /\ tk_result.variant = "NumericalLiteral"
             /\ ToDigits(tk_result.value, base) = DigitsOf(LiteralBody(t))
        /\ HasBadBase(t) =>
             /\ tk_result.status = "err"
             /\ tk_result.err = "InvalidNumericalLiteralBase"
             /\ tk_result.ch = t[2]
        /\ (~HasBadBase(t) /\ ~HasFloatPrefix(t) /\ ~IsDigitRun(LiteralBody(t), base)) =>
             /\ tk_result.status = "err"
             /\ tk_result.err = "InvalidDigitForBase"
        /\ HasFloatPrefix(t) =>
             /\ tk_result.status = "err"
             /\ tk_result.err = "FeatureNotYetImplemented"

\* C5 as amended: a digit not valid in the base fails with
\* InvalidDigitForBase(that character, base) unless the digits before it
\* already exceed int_max_value, and then with NumericalLiteralTooLarge.
C5_BaseFromPrefix ==
  LET t == LiteralToken
      base == PrefixBase(t)
      body == LiteralBody(t)
      mx == ToDigits(main_data.int_max_value, base)
  IN  LiteralCalled =>
        /\ tk_result.status = "ok" =>
             /\ tk_result.variant = "NumericalLiteral"
             /\ ToDigits(tk_result.value, base) = DigitsOf(body)
        /\ HasBadBase(t) =>
             /\ tk_result.status = "err"
             /\ tk_result.err = "InvalidNumericalLiteralBase"
             /\ tk_result.ch = t[2]
        /\ (~HasBadBase(t) /\ ~HasFloatPrefix(t) /\ ~IsDigitRun(body, base)) =>
             /\ tk_result.status = "err"
             /\ IF DigitsGt(DigitsOf(SubSeq(body, 1, FirstBad(body, base) - 1)), mx)
                THEN tk_result.err = "NumericalLiteralTooLarge"
                ELSE /\ tk_result.err = "InvalidDigitForBase"
                     /\ tk_result.ch = body[FirstBad(body, base)]
                     /\ tk_result.base = base
        /\ HasFloatPrefix(t) =>
             /\ tk_result.status = "err"
             /\ tk_result.err = "FeatureNotYetImplemented"

\* What a call returned: the value or the error.
Outcome(r) ==
  [status |-> r.status, err |-> r.err, ch |-> r.ch, base |-> r.base, value |-> r.value]

\* C6: tokenizing a literal gives the same value or the same error as
\* tokenizing it with its underscores removed, wherever they stand.
C6_UnderscoresTransparent ==
  LiteralCalled =>
    Outcome(tk_result)
      = Outcome(tokenize_from_line(main_data,
                                   StripUnderscores(LiteralToken) \o LiteralRest))

\* The octal literal 0o17 was tokenized to 15.
C5_Witness ==
  /\ LiteralCalled
  /\ starts_with(line_content, <<"0", "o", "1", "7">>)
  /\ tk_result.status = "ok"
  /\ tk_result.value = U64Of(15)

(***************************************************************************)
(* Claims about global separation (SpecSep).                               *)
(***************************************************************************)
\* The last call was on an Assignment whose left operand is an Identifier.
SepAssignmentCalled ==
  /\ sep_result.status # "none"
  /\ sep_before.node.kind = "Operator"
  /\ sep_before.node.operator = "Assignment"
  /\ sep_before.node.children[1].kind = "Identifier"

\* The name the last call assigned to, and the outcome of separating its
\* right operand as the call did.
SepTargetName == sep_before.node.children[1].name

SepRightOperand ==
  separate_globals(sep_before.node.children[2], sep_before.global_list, FALSE)

\* The calls of HashMap::insert of the last call that found their key
\* present: in the table before the call, or inserted earlier in the call.
KeyPresentAt(i) ==
  \/ sep_result.inserts[i][1] \in DOMAIN sep_before.global_list
  \/ \E j \in 1..(i - 1) : sep_result.inserts[j][1] = sep_result.inserts[i][1]

\* The node first inserted under the name n: the one the table held before
\* the call, or else the one of the first insert of the call under n.
FirstInserted(n) ==
  IF n \in DOMAIN sep_before.global_list THEN sep_before.global_list[n]
  ELSE sep_result.inserts[CHOOSE i \in DOMAIN sep_result.inserts :
                            /\ sep_result.inserts[i][1] = n
                            /\ \A j \in 1..(i - 1) :
                                 sep_result.inserts[j][1] # n][2]

\* C1 (as the specification states it): when a call reaches an assignment
\* to a name that is already a key of the table, the call fails with
\* GlobalVariableConflict(name) and the table still maps the name to the
\* node inserted first.
C1_FirstValuePreserved ==
  \A i \in DOMAIN sep_result.inserts :
    KeyPresentAt(i) =>
      /\ sep_result.status = "err"
      /\ sep_result.err = "GlobalVariableConflict"
      /\ sep_result.name = sep_result.inserts[i][1]
      /\ global_list[sep_result.name] = FirstInserted(sep_result.name)

\* C2 (as the specification states it): a call on an Assignment to
\* Identifier(n), n not in the table, whose right operand separates without
\* error, succeeds, adds exactly n -> (the separated right operand) and
\* leaves the original Identifier(n) node in the place of the assignment.
C2_AsClaimed ==
  (/\ SepAssignmentCalled
   /\ SepTargetName \notin DOMAIN sep_before.global_list
   /\ SepRightOperand.ok)
  => /\ sep_result.status = "ok"
     /\ DOMAIN global_list = DOMAIN sep_before.global_list \cup {SepTargetName}
     /\ global_list[SepTargetName] = SepRightOperand.node
     /\ \A n \in DOMAIN sep_before.global_list :
          global_list[n] = sep_before.global_list[n]
     /\ root_node = sep_before.node.children[1]

\* C2: a call on an Assignment to Identifier(n) whose right operand
\* separates without error and leaves a table without n succeeds; the table
\* is then the one the right operand's separation left plus
\* n -> (the separated right operand), the original Identifier(n) node
\* stands in the place of the assignment, and every entry that was in the
\* table before the call is unchanged.
C2_FreshAssignment ==
  (/\ SepAssignmentCalled
   /\ SepRightOperand.ok
   /\ SepTargetName \notin DOMAIN SepRightOperand.global_list)
  => /\ sep_result.status = "ok"
     /\ DOMAIN global_list
          = DOMAIN SepRightOperand.global_list \cup {SepTargetName}
     /\ global_list[SepTargetName] = SepRightOperand.node
     /\ \A n \in DOMAIN SepRightOperand.global_list :
          global_list[n] = SepRightOperand.global_list[n]
     /\ \A n \in DOMAIN sep_before.global_list :
          global_list[n] = sep_before.global_list[n]
     /\ root_node = sep_before.node.children[1]

\* A call on an assignment to a fresh name, with a right operand that
\* separated a global of its own, and a table that held an entry before.
C2_Witness ==
  /\ SepAssignmentCalled
  /\ SepRightOperand.ok
  /\ SepTargetName \notin DOMAIN SepRightOperand.global_list
  /\ sep_before.global_list # EmptyTable
  /\ Len(sep_result.inserts) = 2

\* C3: a call of separate_globals on the tree a successful call left, with
\* the table that call left and the same flag, succeeds and changes neither
\* the tree nor the table.
C3_Idempotent ==
  sep_second =>
    /\ sep_result.status = "ok"
    /\ root_node = sep_before.node
    /\ global_list = sep_before.global_list

\* A second call on a tree out of which the first call separated two
\* assignments.
C3_Witness ==
  /\ sep_second
  /\ root_node.kind = "Operator"
  /\ Cardinality(DOMAIN global_list) = 2

(***************************************************************************)
(* Claims about dependency analysis (SpecDeps).                            *)
(***************************************************************************)
\* The Identifier nodes of a tree in source order, each with its name, its
\* position, whether it stands where an l-value is expected, and whether it
\* is inside a function definition of the tree.
RECURSIVE Uses(_, _, _)
RECURSIVE UsesOfEach(_, _, _, _)

UsesOfEach(nodes, i, l_values, nested) ==
  IF i > Len(nodes) THEN <<>>
  ELSE Uses(nodes[i], l_values[i], nested)
         \o UsesOfEach(nodes, i + 1, l_values, nested)

Uses(self, l_value, nested) ==
  LET every(l) == [i \in DOMAIN self.children |-> l]
  IN  CASE self.kind = "Identifier" ->
             <<[name |-> self.name, at |-> self.start, l_value |-> l_value,
                nested |-> nested]>>
        [] self.kind = "Metadata" -> Uses(self.children[1], l_value, nested)
        [] self.kind = "FunctionDefinition" ->
             UsesOfEach(self.children, 1, every(FALSE), TRUE)
        [] self.kind = "Operator" /\ self.operator \in {"Assignment", "Augmented"} ->
             UsesOfEach(self.children, 1,
                        [i \in DOMAIN self.children |-> i = 1], nested)
        [] self.kind = "Operator" /\ self.operator = "LValueAssignment" ->
             UsesOfEach(self.children, 1, every(TRUE), nested)
        [] self.kind = "Operator" /\ self.operator = "Normal" ->
             UsesOfEach(self.children, 1, every(self.operation = "Read"), nested)
        [] OTHER -> UsesOfEach(self.children, 1, every(FALSE), nested)

\* The last call was on a FunctionDefinition in r-value position: an
\* ordinary one, or one under Metadata::Link.
DepOrdinaryCalled ==
  /\ dep_result.status # "none"
  /\ dep_node.kind = "FunctionDefinition"
  /\ ~is_l_value
  /\ ~is_link_function

DepLinkCalled ==
  /\ dep_result.status # "none"
  /\ dep_node.kind = "FunctionDefinition"
  /\ ~is_l_value
  /\ is_link_function

DepParams == SubSeq(dep_node.children, 1, Len(dep_node.children) - 1)

DepParamNames ==
  {DepParams[i].name : i \in {j \in DOMAIN DepParams :
                                DepParams[j].kind = "Identifier"}}

DepBodyUses == Uses(dep_node.children[Len(dep_node.children)], FALSE, FALSE)

\* The name of use i of a sequence of uses is read as an r-value there and
\* has not been used as an l-value before.
ReadBeforeBound(uses, i) ==
  /\ ~uses[i].l_value
  /\ \A j \in 1..(i - 1) : ~(uses[j].l_value /\ uses[j].name = uses[i].name)

\* C7 (as the specification states it): on an ordinary FunctionDefinition no
\* parameter name is added because of a read in the body, and every name
\* read as an r-value in the body that is neither a parameter nor used as an
\* l-value before is added; on a Link-wrapped one every Identifier in
\* parameter position is added.
C7_AsClaimed ==
  /\ DepOrdinaryCalled =>
       /\ \A k \in DOMAIN dep_result.added :
            dep_result.added[k][1] \notin DepParamNames
       /\ \A i \in DOMAIN DepBodyUses :
            (ReadBeforeBound(DepBodyUses, i)
               /\ DepBodyUses[i].name \notin DepParamNames)
              => DepBodyUses[i].name \in variable_dependencies
  /\ DepLinkCalled =>
       \A i \in DOMAIN DepParams :
         DepParams[i].kind = "Identifier"
           => DepParams[i].name \in variable_dependencies

\* C7: on an ordinary FunctionDefinition a parameter name is added only for
\* a read inside a function definition nested in the body, and when the call
\* succeeds every name read as an r-value in the body outside nested
\* function definitions, that is neither a parameter nor used as an l-value
\* before in the body, is in variable_dependencies; on a Link-wrapped
\* FunctionDefinition, when the call succeeds, every Identifier in parameter
\* position whose name is not in the local set the call was given, and is
\* not used as an l-value in an earlier parameter, is in
\* variable_dependencies.
C7_ParametersLocal ==
  /\ DepOrdinaryCalled =>
       /\ \A k \in DOMAIN dep_result.added :
            dep_result.added[k][1] \in DepParamNames
              => \E i \in DOMAIN DepBodyUses :
                   /\ DepBodyUses[i].at = dep_result.added[k][2]
                   /\ DepBodyUses[i].nested
       /\ dep_result.status = "ok" =>
            \A i \in DOMAIN DepBodyUses :
              (/\ ReadBeforeBound(DepBodyUses, i)
               /\ ~DepBodyUses[i].nested
               /\ DepBodyUses[i].name \notin DepParamNames)
                => DepBodyUses[i].name \in variable_dependencies
  /\ (DepLinkCalled /\ dep_result.status = "ok") =>
       LET uses == UsesOfEach(DepParams, 1, [i \in DOMAIN DepParams |-> FALSE],
                              FALSE)
       IN  \A i \in DOMAIN uses :
             (/\ \E p \in DOMAIN DepParams :
                   /\ DepParams[p].kind = "Identifier"
                   /\ DepParams[p].start = uses[i].at
              /\ ReadBeforeBound(uses, i)
              /\ uses[i].name \notin dep_before.local_variables)
               => uses[i].name \in variable_dependencies

\* A successful call on an ordinary function with a parameter that its body
\* reads outside any nested definition, which adds a name because of a read
\* in the body, and which comes to a Link-wrapped definition on the way.
C7_Witness ==
  /\ DepOrdinaryCalled
  /\ dep_result.status = "ok"
  /\ \E i \in DOMAIN DepBodyUses :
       /\ ~DepBodyUses[i].l_value
       /\ ~DepBodyUses[i].nested
       /\ DepBodyUses[i].name \in DepParamNames
  /\ \E k \in DOMAIN dep_result.added :
       dep_result.added[k][1] \notin DepParamNames
  /\ \E c \in DOMAIN dep_result.calls :
       /\ dep_result.calls[c].is_link_function
       /\ dep_result.calls[c].node.kind = "FunctionDefinition"

(***************************************************************************)
(* Claims about code generation                                            *)
(***************************************************************************)
RECURSIVE Subtrees(_)
Subtrees(self) ==
  {self} \cup UNION {Subtrees(self.children[i]) : i \in DOMAIN self.children}

UnitNodes == UNION {Subtrees(gen_unit[i].node) : i \in DOMAIN gen_unit}

BlockSpans == {Span(n) : n \in {m \in UnitNodes : m.kind = "Block"}}

FunctionSpans ==
  {Span(n) : n \in {m \in UnitNodes : m.kind = "FunctionDefinition"}}

\* The position lies within the span of a node.
Inside(at, span) ==
  /\ at[1] = span[1][1]
  /\ span[1][2] <= at[2]
  /\ at[2] < span[2][2]

\* The two positions lie in the body of the same function definition.
SameFunction(p, q) == \A f \in FunctionSpans : Inside(p, f) <=> Inside(q, f)

\* A read resolved to a name: an Identifier built as an r-value, or as the
\* l-value of an operation.
IsRead(e) == e.event \in {"lookup", "resolve"}

\* Event b binds a name in the scope of a nested Block and event k is a later
\* read of the same name.
BoundThenRead(b, k) ==
  /\ b < k
  /\ gen_log.events[b].event = "bind"
  /\ gen_log.events[b].owner \in BlockSpans
  /\ IsRead(gen_log.events[k])
  /\ gen_log.events[k].name = gen_log.events[b].name

\* A read outside the block does not resolve to the slot of the block: it
\* resolves to a binding of a scope that encloses the read, or, when no
\* scope of its function that encloses it has bound the name, to the table
\* of built globals.
ResolvedOutside(b, k) ==
  /\ gen_log.events[k].slot # gen_log.events[b].slot
  /\ \/ Inside(gen_log.events[k].at, gen_log.events[k].owner)
     \/ /\ gen_log.events[k].owner = NoSpan
        /\ gen_log.events[k].name \in DOMAIN file_build_data.built_globals
        /\ ~ \E j \in 1..(k - 1) :
               /\ gen_log.events[j].event = "bind"
               /\ gen_log.events[j].name = gen_log.events[k].name
               /\ Inside(gen_log.events[k].at, gen_log.events[j].owner)
               /\ SameFunction(gen_log.events[j].at, gen_log.events[k].at)

\* C8 as stated: a name first assigned inside a nested Block is bound in the
\* scope of that block; every later read of it within the block resolves to
\* that binding, and every read after the block resolves to an enclosing
\* binding or to the built globals, never to the slot of the block.
C8_AsClaimed ==
  \A b, k \in DOMAIN gen_log.events :
    BoundThenRead(b, k) =>
      IF Inside(gen_log.events[k].at, gen_log.events[b].owner)
      THEN gen_log.events[k].slot = gen_log.events[b].slot
      ELSE ResolvedOutside(b, k)

\* C8 amended: a name first assigned inside a nested Block is bound in the
\* scope of that block; every later read of it within the block that is not
\* within a function definition nested in the block resolves to that
\* binding; a read within such a nested function definition, and every read
\* after the block, resolves to a binding of a scope enclosing the read or
\* to the built globals, never to the slot of the block.
C8_BlockScoped ==
  \A b, k \in DOMAIN gen_log.events :
    BoundThenRead(b, k) =>
      IF /\ Inside(gen_log.events[k].at, gen_log.events[b].owner)
         /\ SameFunction(gen_log.events[b].at, gen_log.events[k].at)
      THEN gen_log.events[k].slot = gen_log.events[b].slot
      ELSE ResolvedOutside(b, k)

\* A block binds a name, a read later in the block resolves to the binding
\* and a read after the block resolves to the built global of that name.
C8_Witness ==
  \E b, k, o \in DOMAIN gen_log.events :
    /\ BoundThenRead(b, k)
    /\ BoundThenRead(b, o)
    /\ k < o
    /\ Inside(gen_log.events[k].at, gen_log.events[b].owner)
    /\ gen_log.events[k].slot = gen_log.events[b].slot
    /\ ~Inside(gen_log.events[o].at, gen_log.events[b].owner)
    /\ gen_log.events[o].owner = NoSpan
    /\ gen_result.status = "ok"

\* The global built last and, when it is a link function, its definition.
LastGlobal == gen_unit[gen_built]

Unwrapped(self) ==
  IF self.kind # "Metadata" THEN self
  ELSE IF self.children[1].kind # "Metadata" THEN self.children[1]
  ELSE self.children[1].children[1]

IsLink(self) ==
  /\ self.kind = "Metadata"
  /\ \/ self.metadata = "Link"
     \/ /\ self.children[1].kind = "Metadata"
        /\ self.children[1].metadata = "Link"

LinkBuilt ==
  /\ gen_built > 0
  /\ gen_result.status = "ok"
  /\ IsLink(LastGlobal.node)
  /\ Unwrapped(LastGlobal.node).kind = "FunctionDefinition"

LinkParameters ==
  SubSeq(Unwrapped(LastGlobal.node).children, 1,
         Len(Unwrapped(LastGlobal.node).children) - 1)

LinkReturn ==
  Unwrapped(LastGlobal.node).children[Len(Unwrapped(LastGlobal.node).children)]

\* The width in bits a width constant stands for: n bytes are written n
\* (unsigned) or -n (signed).
ExternalBits(self) ==
  CHOOSE bits \in {8, 16, 32, 64, 128} :
    self.value \in {U64Of(bits \div 8),
                    integer_negate(main_data, U64Of(bits \div 8))}

\* The wrapper of the link function, the call it makes, its return, and the
\* conversions it applies to parameter p and to the result of the call.
Wrapper ==
  CHOOSE f \in DOMAIN llvm_module.functions :
    llvm_module.functions[f].name = "__bcz__link__" \o LastGlobal.name

WrapperInstructions ==
  {i \in DOMAIN llvm_module.instructions :
     llvm_module.instructions[i].fn = Wrapper}

WrapperCall ==
  CHOOSE c \in WrapperInstructions : llvm_module.instructions[c].op = "call"

WrapperReturn ==
  CHOOSE c \in WrapperInstructions : llvm_module.instructions[c].op = "return"

ValueOf(i) == Value("instruction", Wrapper, i, U64Zero)

Conversions == {"zero_extend", "sign_extend", "truncate"}

ConversionsOf(value) ==
  {i \in WrapperInstructions :
     /\ llvm_module.instructions[i].op \in Conversions
     /\ llvm_module.instructions[i].operands = <<value>>}

\* Argument p goes through exactly the conversion `op` to `bits` bits
\* before the call.
ArgumentConverted(p, op, bits) ==
  \E i \in ConversionsOf(get_parameter(Wrapper, p - 1)) :
    /\ ConversionsOf(get_parameter(Wrapper, p - 1)) = {i}
    /\ llvm_module.instructions[i].op = op
    /\ llvm_module.instructions[i].ty = bits
    /\ i < WrapperCall
    /\ llvm_module.instructions[WrapperCall].operands[p + 1] = ValueOf(i)

ArgumentPassed(p) ==
  /\ ConversionsOf(get_parameter(Wrapper, p - 1)) = {}
  /\ llvm_module.instructions[WrapperCall].operands[p + 1] =
       get_parameter(Wrapper, p - 1)

\* The result of the call goes through exactly the conversion `op` to
\* `bits` bits before it is returned.
ResultConverted(op, bits) ==
  \E i \in ConversionsOf(ValueOf(WrapperCall)) :
    /\ ConversionsOf(ValueOf(WrapperCall)) = {i}
    /\ llvm_module.instructions[i].op = op
    /\ llvm_module.instructions[i].ty = bits
    /\ WrapperCall < i
    /\ i < WrapperReturn
    /\ llvm_module.instructions[WrapperReturn].operands = <<ValueOf(i)>>

ResultPassed ==
  /\ ConversionsOf(ValueOf(WrapperCall)) = {}
  /\ llvm_module.instructions[WrapperReturn].operands =
       <<ValueOf(WrapperCall)>>

\* No conversion where the external width equals the uniform width.
EqualWidthsPass ==
  /\ \A p \in DOMAIN LinkParameters :
       ExternalBits(LinkParameters[p]) = main_data.int_bit_width =>
         ArgumentPassed(p)
  /\ ExternalBits(LinkReturn) = main_data.int_bit_width => ResultPassed

\* A link function with a 32-bit signed return, in a unit whose uniform
\* width exceeds 32 bits.
WiderThanReturn ==
  /\ LinkBuilt
  /\ main_data.int_bit_width > 32
  /\ LinkReturn.value = integer_negate(main_data, U64Of(4))

\* C9 as stated: for a link function with an 8-bit unsigned parameter (1)
\* and a 32-bit signed return (-4), when the uniform width exceeds 32 bits
\* the wrapper zero-extends the argument before the call and sign-extends
\* the result after it; a parameter or return whose external width equals
\* the uniform width gets no conversion instruction.
C9_AsClaimed ==
  /\ WiderThanReturn =>
       /\ \A p \in DOMAIN LinkParameters :
            LinkParameters[p].value = U64Of(1) =>
              ArgumentConverted(p, "zero_extend", 8)
       /\ ResultConverted("sign_extend", main_data.int_bit_width)
  /\ LinkBuilt => EqualWidthsPass

\* C9 amended: for a link function with an 8-bit unsigned parameter (1) and
\* a 32-bit signed return (-4), when the uniform width exceeds 32 bits the
\* wrapper truncates the argument to 8 bits before the call and
\* sign-extends the result to the uniform width after it; a parameter or
\* return whose external width equals the uniform width gets no conversion
\* instruction.
C9_Conversions ==
  /\ WiderThanReturn =>
       /\ \A p \in DOMAIN LinkParameters :
            LinkParameters[p].value = U64Of(1) =>
              ArgumentConverted(p, "truncate", 8)
       /\ ResultConverted("sign_extend", main_data.int_bit_width)
  /\ LinkBuilt => EqualWidthsPass

\* A 64-bit unit has built a link function with an 8-bit unsigned and a
\* 64-bit unsigned parameter and a 32-bit signed return: the first argument
\* is truncated, the second is passed as it is, the result is sign-extended.
C9_Witness ==
  /\ WiderThanReturn
  /\ Len(LinkParameters) = 2
  /\ LinkParameters[1].value = U64Of(1)
  /\ ExternalBits(LinkParameters[2]) = main_data.int_bit_width
  /\ ArgumentConverted(1, "truncate", 8)
  /\ ArgumentPassed(2)
  /\ ResultConverted("sign_extend", main_data.int_bit_width)

\* Lowering i is of a definition tagged as entry point, and an earlier one
\* of such a definition has succeeded.
Tagged(i) == gen_log.lowerings[i].is_entry_point

Recorded(i) ==
  \E j \in 1..(i - 1) : Tagged(j) /\ gen_log.lowerings[j].status = "ok"

\* C10 as stated: over the lowerings of a unit, the first definition tagged
\* as entry point sets the entry point to its function value, every later
\* tagged definition fails with MultipleEntryPoints and leaves the entry
\* point unchanged, and an untagged definition never sets or changes it.
C10_AsClaimed ==
  \A i \in DOMAIN gen_log.lowerings :
    /\ (Tagged(i) /\ gen_log.lowerings[i].status = "ok"
          /\ \A j \in 1..(i - 1) : ~Tagged(j)) =>
         gen_log.lowerings[i].after = [some |-> TRUE,
                                       v |-> gen_log.lowerings[i].value]
    /\ (Tagged(i) /\ \E j \in 1..(i - 1) : Tagged(j)) =>
         /\ gen_log.lowerings[i].status = "err"
         /\ gen_log.lowerings[i].err = "MultipleEntryPoints"
         /\ gen_log.lowerings[i].after = gen_log.lowerings[i].before
    /\ ~Tagged(i) =>
         gen_log.lowerings[i].after = gen_log.lowerings[i].before

\* C10 amended: the entry point is write-once.  The first tagged definition
\* whose lowering completes sets it to its function value; every tagged
\* definition lowered after that fails and leaves it unchanged, with
\* MultipleEntryPoints when its parameters and body lower without error and
\* with their error otherwise; the lowering of an untagged definition does
\* not set or change it; and nothing else writes it.
C10_WriteOnce ==
  /\ \A i \in DOMAIN gen_log.lowerings :
       /\ gen_log.lowerings[i].before =
            IF i = 1 THEN NoEntryPoint ELSE gen_log.lowerings[i - 1].after
       /\ (Tagged(i) /\ ~Recorded(i) /\ gen_log.lowerings[i].reached) =>
            /\ gen_log.lowerings[i].status = "ok"
            /\ gen_log.lowerings[i].after =
                 [some |-> TRUE, v |-> gen_log.lowerings[i].value]
       /\ (Tagged(i) /\ Recorded(i)) =>
            /\ gen_log.lowerings[i].status # "ok"
            /\ gen_log.lowerings[i].after = gen_log.lowerings[i].before
            /\ gen_log.lowerings[i].before.some
            /\ gen_log.lowerings[i].reached =>
                 gen_log.lowerings[i].err = "MultipleEntryPoints"
       /\ ~gen_log.lowerings[i].reached =>
            /\ gen_log.lowerings[i].status # "ok"
            /\ gen_log.lowerings[i].after = gen_log.lowerings[i].before
       /\ ~Tagged(i) =>
            gen_log.lowerings[i].after = gen_log.lowerings[i].before
  /\ file_build_data.entrypoint =
       IF gen_log.lowerings = <<>> THEN NoEntryPoint
       ELSE gen_log.lowerings[Len(gen_log.lowerings)].after

\* A tagged definition has set the entry point, an untagged one was lowered
\* after it, and a second tagged one failed with MultipleEntryPoints, the
\* entry point still that of the first.
C10_Witness ==
  \E i, j, k \in DOMAIN gen_log.lowerings :
    /\ i < j
    /\ j < k
    /\ Tagged(i)
    /\ gen_log.lowerings[i].status = "ok"
    /\ ~Tagged(j)
    /\ gen_log.lowerings[j].status = "ok"
    /\ Tagged(k)
    /\ gen_log.lowerings[k].reached
    /\ gen_log.lowerings[k].err = "MultipleEntryPoints"
    /\ file_build_data.entrypoint =
         [some |-> TRUE, v |-> gen_log.lowerings[i].value]
    /\ gen_result.status = "err"

(***************************************************************************)
(* Claims about constant folding (SpecFold)                                *)
(***************************************************************************)
\* (2^w - v) mod 2^w, by subtracting v from zero limb by limb: a limb
\* borrows when a lower limb of v is not zero.
TwosComplement(value, width) ==
  [i \in 1..4 |->
     IF i * 16 > width THEN 0
     ELSE (2 * Limb - value[i]
             - (IF \E j \in 1..(i - 1) : value[j] # 0 THEN 1 ELSE 0)) % Limb]

\* The tree with the negations of constants replaced bottom-up, either in
\* every place or in the places the pass visits: the parameters of a
\* function definition are visited under Metadata::Link only.
RECURSIVE Folded(_, _, _, _)

Folded(self, data, link, everywhere) ==
  LET below(i) ==
        CASE self.kind = "FunctionDefinition" -> FALSE
          [] self.kind = "Metadata" /\ self.metadata = "Link" -> TRUE
          [] OTHER -> link
      visited(i) ==
        \/ everywhere
        \/ link
        \/ self.kind # "FunctionDefinition"
        \/ i = Len(self.children)
      replaced(children) ==
        IF /\ self.kind = "Operator"
           /\ self.operator = "Normal"
           /\ self.operation = "IntegerNegate"
           /\ children[1].kind = "Constant"
        THEN [Constant(TwosComplement(children[1].value,
                                      data.int_bit_width))
                EXCEPT !.start = self.start, !.end = self.end]
        ELSE [self EXCEPT !.children = children]
  IN  replaced([i \in DOMAIN self.children |->
                  IF visited(i)
                  THEN Folded(self.children[i], data, below(i), everywhere)
                  ELSE self.children[i]])

FoldDone == call_return.status = "ok" /\ "is_link_function" \in DOMAIN call_args

\* An IntegerNegate operator over a constant.
NegatedConstant(n) ==
  /\ n.kind = "Operator"
  /\ n.operator = "Normal"
  /\ n.operation = "IntegerNegate"
  /\ n.children[1].kind = "Constant"

GlobalDependencies(i) ==
  get_variable_dependencies(gen_unit[i].node, {}, {}, FALSE, FALSE)

\* The read found the name in no scope and took it from built_globals.
FellThrough(e) == e.event = "lookup" /\ e.owner = NoSpan

\* C12 as claimed: when the dependency analysis accepts the defining
\* expression of a global, every name that code generation reads from the
\* table of built globals while it builds that global is in the
\* variable_deps set the analysis computes for it.
C12_DependenciesCoverReads ==
  \A k \in DOMAIN gen_log.events :
    \A i \in {j \in DOMAIN gen_unit :
                gen_log.events[k].at[1] = j + dummy_number} :
      (FellThrough(gen_log.events[k]) /\ GlobalDependencies(i).ok)
        => gen_log.events[k].name \in GlobalDependencies(i).variable_dependencies

(***************************************************************************)
(* Claims about the order of code generation (SpecGen)                     *)
(***************************************************************************)
\* The nodes whose operands, arguments or statements build_r_value builds.
OperandNodes ==
  {n \in UnitNodes : n.kind \in {"Operator", "FunctionCall", "Block"}}

\* What the call produced: instructions, bindings, lookups.
Produced(b) == b.to # b.from

\* All that the first call produced was produced before anything the second
\* call produced.
Before(b, c) == b.to[1] <= c.from[1] /\ b.to[2] <= c.from[2]

\* The calls on child i and on child j of the node are in that order.
InOrder(n, i, j) ==
  \A k, l \in DOMAIN gen_log.builds :
    (/\ gen_log.builds[k].at = Span(n.children[i])
     /\ gen_log.builds[l].at = Span(n.children[j])
     /\ Produced(gen_log.builds[k])
     /\ Produced(gen_log.builds[l]))
      => Before(gen_log.builds[k], gen_log.builds[l])

\* C13 as claimed: for every Operator (Assignment too), FunctionCall and
\* Block node, what is produced for child i is produced before anything
\* produced for child i+1.
C13_AsClaimed ==
  \A n \in OperandNodes :
    \A i \in 1..(Len(n.children) - 1) : InOrder(n, i, i + 1)

\* C13: for every Operator other than Assignment, every FunctionCall and
\* every Block node, what is produced for child i is produced before
\* anything produced for child i+1; for an Assignment, what is produced for
\* the right operand is produced before anything produced for the left one.
C13_RightOperandFirst ==
  \A n \in OperandNodes :
    IF n.kind = "Operator" /\ n.operator = "Assignment"
    THEN InOrder(n, 2, 1)
    ELSE \A i \in 1..(Len(n.children) - 1) : InOrder(n, i, i + 1)

\* The calls on child i and child j of the node both produced something.
BothProduced(n, i, j) ==
  \E k, l \in DOMAIN gen_log.builds :
    /\ {i, j} \subseteq DOMAIN n.children
    /\ gen_log.builds[k].at = Span(n.children[i])
    /\ gen_log.builds[l].at = Span(n.children[j])
    /\ Produced(gen_log.builds[k])
    /\ Produced(gen_log.builds[l])

\* A global was built in which both operands of an Assignment, both
\* operands of another operator, two arguments of a call and two
\* statements of a block each produced something.
C13_Witness ==
  /\ gen_result.status = "ok"
  /\ \E n \in OperandNodes :
       n.kind = "Operator" /\ n.operator = "Assignment" /\ BothProduced(n, 1, 2)
  /\ \E n \in OperandNodes :
       n.kind = "Operator" /\ n.operator = "Normal" /\ BothProduced(n, 1, 2)
  /\ \E n \in OperandNodes : n.kind = "FunctionCall" /\ BothProduced(n, 2, 3)
  /\ \E n \in OperandNodes : n.kind = "Block" /\ BothProduced(n, 1, 2)

(***************************************************************************)
(* Claims about the builder's position (SpecGen)                           *)
(***************************************************************************)
\* The calls of build_r_value on a function definition, bare or under
\* metadata, that were given a basic block and returned.
NestedLowerings ==
  {k \in DOMAIN gen_log.builds :
     /\ gen_log.builds[k].call = "build_r_value"
     /\ \E n \in UnitNodes : is_function(n) /\ Span(n) = gen_log.builds[k].at
     /\ gen_log.builds[k].basic_block.some
     /\ gen_log.builds[k].status \in {"ok", "err"}}

\* C14 as claimed: build_r_value on a function definition nested in an
\* expression leaves the builder at the end of the basic block its caller
\* supplied, when it returns a value and when it returns an error.
C14_CursorRestored ==
  \A k \in NestedLowerings :
    gen_log.builds[k].position = gen_log.builds[k].basic_block.block

(***************************************************************************)
(* Claims about operator and keyword tokens (SpecLex)                      *)
(***************************************************************************)
\* The longest prefix of the line, from character `from` on, whose
\* characters are all in the set.
RunFrom(from, chars) ==
  SubSeq(line_content, from,
         CHOOSE n \in (from - 1)..Len(line_content) :
           /\ \A i \in from..n : line_content[i] \in chars
           /\ n < Len(line_content) => line_content[n + 1] \notin chars)

KeywordChars ==
  {c \in Range(line_content) : is_ascii_alphanumeric(c) \/ c = "_"}

StartsWithOperator ==
  /\ line_content[1] \in OperatorChars
  /\ ~starts_with(line_content, <<"/", "/">>)
  /\ ~starts_with(line_content, <<"/", "*">>)

\* C15 as claimed: on a line that starts with an operator character (and
\* not with // or /*) the call returns an Operator token covering the
\* maximal run of operator characters; on a line that starts with @ it returns
\* a Keyword token covering the @ and the following run of alphanumeric
\* characters and underscores; the call returns and does not abort.
C15_OperatorAndKeywordTokens ==
  tk_result.status # "none" =>
    /\ StartsWithOperator =>
         /\ tk_result.status = "ok"
         /\ tk_result.variant = "Operator"
         /\ tk_result.text = RunFrom(1, OperatorChars)
    /\ line_content[1] = "@" =>
         /\ tk_result.status = "ok"
         /\ tk_result.variant = "Keyword"
         /\ tk_result.text = <<"@">> \o RunFrom(2, KeywordChars)

(***************************************************************************)
(* Claims about type widths (SpecWidth)                                    *)
(***************************************************************************)
\* The sign bit of a value of the integer width is set: its top limb is in
\* the upper half.
SignBitSet(value, width) == value[width \div 16] >= Limb \div 2

\* The magnitude the claim gives a constant: the value itself, or its two's
\* complement negation when its sign bit is set.
Magnitude(value, width) ==
  IF SignBitSet(value, width) THEN TwosComplement(value, width) ELSE value

TypeWidths == {1, 2, 4, 8, 16}

\* C16: on Constant(v) type_from_width takes v as negative exactly when its
\* sign bit is set, takes v or its two's complement negation as the
\* magnitude, and returns the integer type of 8 times the magnitude in bits
\* with is_negative when the magnitude is 1, 2, 4, 8 or 16; every other
\* magnitude fails with InvalidTypeWidth, and every node that is not a
\* Constant with InvalidType, at the node's start.
C16_TypeFromWidth ==
  call_return.status # "none" =>
    IF call_self.kind # "Constant"
    THEN /\ ~call_return.outcome.ok
         /\ call_return.outcome.err = "InvalidType"
         /\ call_return.outcome.at = call_self.start
    ELSE IF \E m \in TypeWidths :
              Magnitude(call_self.value, main_data.int_bit_width) = U64Of(m)
    THEN /\ call_return.outcome.ok
         /\ U64Of(call_return.outcome.bits \div 8)
              = Magnitude(call_self.value, main_data.int_bit_width)
         /\ call_return.outcome.bits % 8 = 0
         /\ call_return.outcome.is_signed
              = SignBitSet(call_self.value, main_data.int_bit_width)
    ELSE /\ ~call_return.outcome.ok
         /\ call_return.outcome.err = "InvalidTypeWidth"
         /\ call_return.outcome.at = call_self.start

\* The call returned the signed 128-bit type for the negation of 16.
C16_Witness ==
  /\ call_return.status = "ok"
  /\ call_return.outcome.bits = 128
  /\ call_return.outcome.is_signed
  /\ call_self.value # U64Of(16)

(***************************************************************************)
(* Claims about l-values (SpecLValue)                                      *)
(***************************************************************************)
\* The call left the scope stack as it was and built nothing.
NothingBuilt ==
  /\ call_return.outcome.local_variables = call_args.local_variables
  /\ call_return.outcome.st.instructions = call_args.st.instructions
  /\ call_return.outcome.st.functions = call_args.st.functions
  /\ call_return.outcome.st.globals = call_args.st.globals
  /\ call_return.outcome.st.position = call_args.st.position

FailedWith(err) ==
  /\ call_return.status = "err"
  /\ call_return.outcome.err = err
  /\ call_return.outcome.at = call_self.start

\* C17: build_l_value succeeds only for Identifier nodes; Constant, String,
\* FunctionCall, FunctionDefinition and Metadata nodes fail with
\* InvalidLValue, Block and Operator nodes with FeatureNotYetImplemented,
\* at the node's start; a failing call leaves the scope stack unchanged and
\* emits no IR operation.
C17_OnlyIdentifiers ==
  call_return.status # "none" =>
    /\ call_return.status = "ok" => call_self.kind = "Identifier"
    /\ call_self.kind \in {"Constant", "String", "FunctionCall",
                           "FunctionDefinition", "Metadata"}
         => FailedWith("InvalidLValue")
    /\ call_self.kind \in {"Block", "Operator"}
         => FailedWith("FeatureNotYetImplemented")
    /\ call_return.status = "err" => NothingBuilt

\* The call failed on a Metadata node below two scopes that bind names.
C17_Witness ==
  /\ FailedWith("InvalidLValue")
  /\ call_self.kind = "Metadata"
  /\ Len(call_args.local_variables) = 2
  /\ \A i \in 1..2 : DOMAIN call_args.local_variables[i].variables # {}

\* The scopes of the stack the call was given that bind the name.
Binding(name) ==
  {i \in DOMAIN call_args.local_variables :
     name \in DOMAIN call_args.local_variables[i].variables}

\* The call returned the binding of the name in the innermost scope that
\* has one, and built nothing.
ReturnedBinding(name) ==
  /\ \E i \in Binding(name) :
       /\ \A j \in Binding(name) : j <= i
       /\ call_return.outcome.value
            = call_args.local_variables[i].variables[name]
  /\ NothingBuilt

\* The call allocated one slot, registered it under the name in the
\* innermost scope only, and returned it.
ReturnedNewSlot(name) ==
  /\ Len(call_return.outcome.st.instructions)
       = Len(call_args.st.instructions) + 1
  /\ call_return.outcome.st.instructions[Len(call_args.st.instructions) + 1].op
       = "alloca"
  /\ call_return.outcome.value.kind = "instruction"
  /\ call_return.outcome.value.id = Len(call_args.st.instructions) + 1
  /\ DOMAIN call_return.outcome.local_variables
       = DOMAIN call_args.local_variables
  /\ \A i \in DOMAIN call_args.local_variables :
       call_return.outcome.local_variables[i].variables
         = IF i = Len(call_args.local_variables)
           THEN insert(call_args.local_variables[i].variables, name,
                       call_return.outcome.value)
           ELSE call_args.local_variables[i].variables

\* C18 as claimed: for every scope stack, the empty one included,
\* build_l_value on Identifier(n) returns the binding of n in the innermost
\* scope that contains n, and on a miss allocates one new slot, registers it
\* under n in the innermost scope only and returns it; it never fails or
\* aborts.
C18_BindsOrResolves ==
  (call_return.status # "none" /\ call_self.kind = "Identifier") =>
    /\ call_return.status = "ok"
    /\ IF Binding(call_self.name) # {}
       THEN ReturnedBinding(call_self.name)
       ELSE ReturnedNewSlot(call_self.name)

(***************************************************************************)
(* Claims about blocks and calls in global separation (SpecSep)            *)
(***************************************************************************)
\* The last call was made on a Block.
BlockSeparated == sep_result.status # "none" /\ sep_before.node.kind = "Block"

\* The call left node and table as they were, and returned Ok.
LeftUnchanged ==
  /\ sep_result.status = "ok"
  /\ root_node = sep_before.node
  /\ global_list = sep_before.global_list

\* The call replaced the block by its statement as separate_globals leaves
\* it, or failed as the statement fails.
Unwrapped_statement(r) ==
  IF r.ok
  THEN /\ sep_result.status = "ok"
       /\ root_node = r.node
       /\ global_list = r.global_list
  ELSE /\ sep_result.status = "err"
       /\ sep_result.err = r.err
       /\ sep_result.at = r.at

UnwrappedInPlace ==
  Unwrapped_statement(separate_globals(sep_before.node.children[1],
                                       sep_before.global_list,
                                       will_be_discarded))

RejectedBlock ==
  /\ sep_result.status = "err"
  /\ sep_result.err = "FeatureNotYetImplemented"
  /\ sep_result.at = sep_before.node.start
  /\ global_list = sep_before.global_list

\* C19 as claimed: separate_globals accepts the empty block marked
\* result_is_undefined, which it leaves unchanged, and every block of
\* exactly one statement, whatever its flag, which it replaces by its
\* separated statement; every other block fails with
\* FeatureNotYetImplemented at the block's start.
C19_AsClaimed ==
  BlockSeparated =>
    CASE sep_before.node.children = <<>>
           /\ sep_before.node.result_is_undefined -> LeftUnchanged
      [] Len(sep_before.node.children) = 1 -> UnwrappedInPlace
      [] OTHER -> RejectedBlock

\* C19: separate_globals accepts the empty block marked
\* result_is_undefined, which it leaves unchanged, and the block of exactly
\* one statement that is not marked result_is_undefined, which it replaces
\* by its separated statement (failing as the statement fails); every other
\* block, the one-statement block marked result_is_undefined included, fails
\* with FeatureNotYetImplemented at the block's start.
C19_SingleStatementWithResult ==
  BlockSeparated =>
    CASE sep_before.node.children = <<>>
           /\ sep_before.node.result_is_undefined -> LeftUnchanged
      [] Len(sep_before.node.children) = 1
           /\ ~sep_before.node.result_is_undefined -> UnwrappedInPlace
      [] OTHER -> RejectedBlock

\* A one-statement block holding an assignment was unwrapped to the
\* identifier, the assignment gone to the table.
C19_Witness ==
  /\ BlockSeparated
  /\ sep_result.status = "ok"
  /\ Len(sep_before.node.children) = 1
  /\ sep_before.node.children[1].kind = "Operator"
  /\ root_node.kind = "Identifier"
  /\ global_list # sep_before.global_list

\* The FunctionCall nodes a call of separate_globals comes to, each with
\* the discard flag it is given: the flag goes down unchanged through Normal
\* operators, one-statement blocks and Metadata, and is false in the right
\* operand of an Assignment.
RECURSIVE CallsReached(_, _)
CallsReached(self, flag) ==
  CASE self.kind = "FunctionCall" -> {<<self.start, flag>>}
    [] self.kind = "Operator" /\ self.operator = "Assignment" ->
         CallsReached(self.children[2], FALSE)
    [] self.kind = "Operator" /\ self.operator = "Normal" ->
         UNION {CallsReached(self.children[i], flag) :
                  i \in DOMAIN self.children}
    [] self.kind = "Block" /\ Len(self.children) = 1 ->
         CallsReached(self.children[1], flag)
    [] self.kind = "Metadata" -> CallsReached(self.children[1], flag)
    [] OTHER -> {}

\* C20: separate_globals rejects a FunctionCall with
\* DiscardedGlobalFunctionCall exactly when the discard flag that reaches it
\* is true: a rejected call is one the root flag reaches as true, a call in
\* the bound value of an assignment is never rejected, and a tree with a
\* call that the flag reaches as true is not accepted.
C20_DiscardFlagHandedDown ==
  sep_result.status # "none" =>
    /\ sep_result.err = "DiscardedGlobalFunctionCall" =>
         <<sep_result.at, TRUE>>
           \in CallsReached(sep_before.node, will_be_discarded)
    /\ sep_result.status = "ok" =>
         \A c \in CallsReached(sep_before.node, will_be_discarded) : ~c[2]

\* With the root flag true, a tree that binds a call in a global assignment
\* was accepted.
C20_Witness ==
  /\ sep_result.status = "ok"
  /\ will_be_discarded
  /\ CallsReached(sep_before.node, will_be_discarded) # {}

(***************************************************************************)
(* Claims about the local-variable set of dependency analysis (SpecDeps).  *)
(***************************************************************************)
\* The last call was on a FunctionCall in r-value position.
DepFunctionCallCalled ==
  /\ dep_result.status # "none"
  /\ dep_node.kind = "FunctionCall"
  /\ ~is_l_value
  /\ ~is_link_function

\* The calls the last call made on the children of its node.
DepChildCalls ==
  {c \in 2..Len(dep_result.calls) :
     \E i \in DOMAIN dep_node.children :
       dep_result.calls[c].node = dep_node.children[i]}

\* Child i of the node uses the name as an l-value, outside nested function
\* definitions.
BoundInChild(i, name) ==
  \E u \in Range(Uses(dep_node.children[i], FALSE, FALSE)) :
    u.l_value /\ ~u.nested /\ u.name = name

\* C21: on a FunctionCall the callee and every argument are analysed with
\* the local-variable set the call was given, whatever an earlier sibling
\* used as an l-value; when the call succeeds every child has been analysed
\* and a name read in a child, not local on entry and not used as an l-value
\* before in that child, is in variable_dependencies; and the caller's
\* local-variable set is the same after the call as before.
C21_CallOperandsIndependent ==
  DepFunctionCallCalled =>
    /\ local_variables = dep_before.local_variables
    /\ \A c \in DepChildCalls :
         dep_result.calls[c].local_variables = dep_before.local_variables
    /\ dep_result.status = "ok" =>
         \A i \in DOMAIN dep_node.children :
           /\ \E c \in DepChildCalls :
                dep_result.calls[c].node = dep_node.children[i]
           /\ LET uses == Uses(dep_node.children[i], FALSE, FALSE)
              IN  \A k \in DOMAIN uses :
                    (/\ ReadBeforeBound(uses, k)
                     /\ ~uses[k].nested
                     /\ uses[k].name \notin dep_before.local_variables)
                      => uses[k].name \in variable_dependencies

\* A successful call on a FunctionCall, entered with a local name, where a
\* child uses as an l-value a name a later child reads, and the read is
\* recorded as a dependency.
C21_Witness ==
  /\ DepFunctionCallCalled
  /\ dep_result.status = "ok"
  /\ dep_before.local_variables # {}
  /\ \E i, j \in DOMAIN dep_node.children :
       /\ i < j
       /\ \E u \in Range(Uses(dep_node.children[j], FALSE, FALSE)) :
            /\ ~u.l_value
            /\ BoundInChild(i, u.name)
            /\ u.name \notin dep_before.local_variables
            /\ \E k \in DOMAIN dep_result.added :
                 dep_result.added[k] = <<u.name, u.at>>

(***************************************************************************)
(* Claims about nested function definitions (SpecGen)                      *)
(***************************************************************************)
\* The calls the analysis of global i makes on ordinary function definitions.
OrdinaryCalls(i) ==
  {c \in Range(GlobalDependencies(i).calls) :
     c.node.kind = "FunctionDefinition" /\ ~c.is_l_value /\ ~c.is_link_function}

\* The outcome of one of these calls.
Analysed(c) ==
  get_variable_dependencies(c.node, c.variable_dependencies, c.local_variables,
                            FALSE, FALSE)

\* The names read in the body of the definition, outside function
\* definitions nested in it, that are not parameters of it and not used as
\* an l-value before in the body.
FreeReads(definition) ==
  LET parameters == SubSeq(definition.children, 1, Len(definition.children) - 1)
      uses == Uses(definition.children[Len(definition.children)], FALSE, FALSE)
  IN  {uses[k].name : k \in {j \in DOMAIN uses :
                                /\ ReadBeforeBound(uses, j)
                                /\ ~uses[j].nested
                                /\ uses[j].name \notin parameter_locals(parameters)}}

\* Read k of the log resolved to a binding made inside the function
\* definition of span f.
BoundInside(k, f) ==
  \E j \in 1..(k - 1) :
    /\ gen_log.events[j].event = "bind"
    /\ gen_log.events[j].slot = gen_log.events[k].slot
    /\ Inside(gen_log.events[j].at, f)

\* The calls of build_r_value on function definitions that returned.
DefinitionBuilds ==
  {k \in DOMAIN gen_log.builds :
     /\ gen_log.builds[k].call = "build_r_value"
     /\ \E n \in UnitNodes : is_function(n) /\ Span(n) = gen_log.builds[k].at
     /\ gen_log.builds[k].status \in {"ok", "err"}}

\* The names that are the target of an Assignment somewhere in the node.
AssignedIn(node) ==
  {t.children[1].name :
     t \in {m \in Subtrees(node) : /\ m.kind = "Operator"
                                  /\ m.operator = "Assignment"
                                  /\ m.children[1].kind = "Identifier"}}

\* The names the body of the definition reads outside function definitions
\* nested in it that are neither parameters of it nor assigned in the body.
UnassignedReads(definition) ==
  LET parameters == SubSeq(definition.children, 1, Len(definition.children) - 1)
      body == definition.children[Len(definition.children)]
  IN  {u.name : u \in {v \in Range(Uses(body, FALSE, FALSE)) :
                         /\ ~v.l_value
                         /\ ~v.nested
                         /\ v.name \notin parameter_locals(parameters)}}
        \ AssignedIn(body)

\* The name is bound in a scope of the code around the definition when the
\* definition is lowered.
LocalAround(definition, name) ==
  \E j \in DOMAIN gen_log.events :
    /\ gen_log.events[j].event = "bind"
    /\ gen_log.events[j].name = name
    /\ gen_log.events[j].owner # Span(definition)
    /\ Inside(definition.start, gen_log.events[j].owner)
    /\ gen_log.events[j].at[2] < definition.start[2]

\* C22 as claimed: where an ordinary function definition stands where a
\* name is local to the enclosing code, and the name is neither a parameter
\* nor assigned in the body, a read of the name in the body is in
\* variable_dependencies after a successful analysis and is taken from the
\* table of built globals by code generation.
C22_AsClaimed ==
  /\ \A i \in 1..gen_built :
       \A c \in OrdinaryCalls(i) :
         Analysed(c).ok =>
           (UnassignedReads(c.node) \cap c.local_variables)
             \subseteq Analysed(c).variable_dependencies
  /\ \A n \in {m \in UnitNodes : m.kind = "FunctionDefinition"} :
       \A k \in DOMAIN gen_log.events :
         (/\ gen_log.events[k].event = "lookup"
          /\ Inside(gen_log.events[k].at, Span(n))
          /\ SameFunction(gen_log.events[k].at, n.children[Len(n.children)].start)
          /\ LocalAround(n, gen_log.events[k].name)
          /\ gen_log.events[k].name \in UnassignedReads(n))
           => FellThrough(gen_log.events[k])

\* C22: the analysis of an ordinary function definition leaves the local
\* set of the enclosing code as it was and, when it succeeds, has every name
\* the body reads that is neither a parameter nor used as an l-value before
\* in the body in variable_dependencies, whatever the enclosing local set
\* holds; in code generation a read inside a function definition resolves
\* to a binding made inside that definition or else to the table of built
\* globals, and build_r_value on a function definition returns with the
\* scope stack of its caller as it found it.
C22_NestedBodiesSeeNoEnclosingLocals ==
  /\ \A i \in 1..gen_built :
       \A c \in OrdinaryCalls(i) :
         \E r \in {Analysed(c)} :
           /\ r.local_variables = c.local_variables
           /\ r.ok => FreeReads(c.node) \subseteq r.variable_dependencies
  /\ \A k \in DOMAIN gen_log.events :
       IsRead(gen_log.events[k]) =>
         \A f \in FunctionSpans :
           Inside(gen_log.events[k].at, f) =>
             \/ BoundInside(k, f)
             \/ /\ FellThrough(gen_log.events[k])
                /\ gen_log.events[k].name \in DOMAIN file_build_data.built_globals
  /\ \A k \in DefinitionBuilds :
       gen_log.builds[k].scopes = gen_log.builds[k].scopes_entered

\* A global was built in which a function definition stands where a name is
\* bound in the scope stack of the enclosing function, reads that name in
\* its body, the read is taken from the table of built globals, and the
\* analysis of the global has the name in variable_dependencies.
C22_Witness ==
  /\ gen_result.status = "ok"
  /\ \E k \in DefinitionBuilds :
       \E e \in DOMAIN gen_log.events :
         /\ FellThrough(gen_log.events[e])
         /\ Inside(gen_log.events[e].at, gen_log.builds[k].at)
         /\ scope_of(gen_log.builds[k].scopes_entered, gen_log.events[e].name) # 0
         /\ gen_log.builds[k].scopes = gen_log.builds[k].scopes_entered
         /\ gen_log.events[e].name
              \in GlobalDependencies(gen_built).variable_dependencies
         /\ \E c \in OrdinaryCalls(gen_built) :
              /\ Span(c.node) = gen_log.builds[k].at
              /\ gen_log.events[e].name \in c.local_variables

(***************************************************************************)
(* Claims about Metadata::Link in dependency analysis (SpecDeps)           *)
(***************************************************************************)
\* The node under all the Metadata wrappers of a node.
RECURSIVE Innermost(_)
Innermost(node) ==
  IF node.kind = "Metadata" THEN Innermost(node.children[1]) ELSE node

WrapsFunction(node) == Innermost(node).kind = "FunctionDefinition"

LinkNodes(node) ==
  {m \in Subtrees(node) : m.kind = "Metadata" /\ m.metadata = "Link"}

\* The last call failed with LinkNotUsedOnFunction at the position.
LinkNotUsedOnFunctionAt(at) ==
  /\ dep_result.status = "err"
  /\ dep_result.err = "LinkNotUsedOnFunction"
  /\ dep_result.at = at

\* The function definition is one of a link function whose parameters and
\* body are constants.
ConstantLinkFunction(definition) ==
  /\ definition.kind = "FunctionDefinition"
  /\ \A i \in DOMAIN definition.children :
       definition.children[i].kind = "Constant"

\* C23: a call on a Metadata::Link node whose wrapped node is not a function
\* (looking through Metadata wrappers) fails with LinkNotUsedOnFunction at
\* the start of the wrapped node, and so does a call that is given the link
\* flag on a node that is not a function, at the start of that node; a call
\* fails with LinkNotUsedOnFunction only at the wrapped node of such a Link
\* node; the link flag is given only to the node a Metadata node wraps,
\* never to the parameters or the body of a function definition; and a Link
\* wrapped function definition whose parameters and body are constants is
\* accepted.
C23_LinkOnlyOnFunctions ==
  dep_result.status # "none" =>
    /\ (/\ dep_node.kind = "Metadata"
        /\ dep_node.metadata = "Link"
        /\ ~is_link_function
        /\ ~WrapsFunction(dep_node.children[1]))
         => LinkNotUsedOnFunctionAt(dep_node.children[1].start)
    /\ (is_link_function /\ ~WrapsFunction(dep_node))
         => LinkNotUsedOnFunctionAt(dep_node.start)
    /\ (dep_result.status = "err" /\ dep_result.err = "LinkNotUsedOnFunction")
         => \/ is_link_function /\ ~WrapsFunction(dep_node)
                                /\ dep_result.at = dep_node.start
            \/ \E m \in LinkNodes(dep_node) :
                 /\ ~WrapsFunction(m.children[1])
                 /\ dep_result.at = m.children[1].start
    /\ \A c \in 2..Len(dep_result.calls) :
         dep_result.calls[c].is_link_function
           => \E m \in Subtrees(dep_node) :
                /\ m.kind = "Metadata"
                /\ m.children[1] = dep_result.calls[c].node
    /\ (/\ dep_node.kind = "Metadata"
        /\ dep_node.metadata = "Link"
        /\ ~is_l_value
        /\ ConstantLinkFunction(Innermost(dep_node)))
         => dep_result.status = "ok"

\* A call on a Link node that wraps, under an EntryPoint wrapper, a function
\* definition with a constant parameter and a constant body, which is
\* accepted with the calls on the parameter and on the body not given the
\* link flag.
C23_Witness ==
  /\ dep_result.status = "ok"
  /\ dep_node.kind = "Metadata"
  /\ dep_node.metadata = "Link"
  /\ dep_node.children[1].kind = "Metadata"
  /\ ConstantLinkFunction(Innermost(dep_node))
  /\ Len(Innermost(dep_node).children) > 1
  /\ \E c \in 2..Len(dep_result.calls) :
       /\ dep_result.calls[c].node = Innermost(dep_node)
       /\ dep_result.calls[c].is_link_function
  /\ \A i \in DOMAIN Innermost(dep_node).children :
       \E c \in 2..Len(dep_result.calls) :
         /\ dep_result.calls[c].node = Innermost(dep_node).children[i]
         /\ ~dep_result.calls[c].is_link_function

\* A call on a Link node that wraps, under an EntryPoint wrapper, a node
\* that is not a function, which fails at the start of the wrapper.
C23_WitnessRejected ==
  /\ dep_node.kind = "Metadata"
  /\ dep_node.metadata = "Link"
  /\ dep_node.children[1].kind = "Metadata"
  /\ ~WrapsFunction(dep_node)
  /\ LinkNotUsedOnFunctionAt(dep_node.children[1].start)

(***************************************************************************)
(* Claims about the scope stack of build_r_value (SpecGen)                 *)
(***************************************************************************)
\* The calls of build_r_value that returned a value.
ValueBuilds ==
  {k \in DOMAIN gen_log.builds :
     /\ gen_log.builds[k].call = "build_r_value"
     /\ gen_log.builds[k].status = "ok"}

\* Every scope of the first stack is a scope of the second one, at the same
\* depth and with every binding it has.
ScopesKept(entered, left) ==
  /\ Len(left) = Len(entered)
  /\ \A i \in DOMAIN entered :
       /\ left[i].owner = entered[i].owner
       /\ \A name \in DOMAIN entered[i].variables :
            /\ name \in DOMAIN left[i].variables
            /\ left[i].variables[name] = entered[i].variables[name]

\* The calls of build_r_value on the Block node that returned, a value or
\* an error.
BlockBuilds(n) ==
  {k \in DOMAIN gen_log.builds :
     /\ gen_log.builds[k].call = "build_r_value"
     /\ gen_log.builds[k].at = Span(n)
     /\ gen_log.builds[k].status \in {"ok", "err"}}

\* The value the call on the last statement of the block returned, which is
\* the call that returned last before the call on the block did.
LastStatementValue(n, k) ==
  IF k > 1 /\ gen_log.builds[k - 1].at = Span(n.children[Len(n.children)])
  THEN gen_log.builds[k - 1].value
  ELSE NoValue

\* C24: a call of build_r_value that returns a value leaves the scope stack
\* at the depth it found it, every scope with the bindings it had; on a
\* Block, given a scope stack that is not empty, the value returned is the
\* value of the last statement when the block has statements and is not
\* marked result_is_undefined, and the undefined value otherwise; given an
\* empty scope stack, the empty block marked result_is_undefined yields the
\* undefined value and every other block fails with
\* FeatureNotYetImplemented.
C24_ScopeStackBalanced ==
  /\ \A k \in ValueBuilds :
       ScopesKept(gen_log.builds[k].scopes_entered, gen_log.builds[k].scopes)
  /\ \A n \in {m \in UnitNodes : m.kind = "Block"} :
       \A k \in BlockBuilds(n) :
         IF gen_log.builds[k].scopes_entered # <<>>
         THEN gen_log.builds[k].status = "ok" =>
                gen_log.builds[k].value =
                  IF n.children # <<>> /\ ~n.result_is_undefined
                  THEN LastStatementValue(n, k)
                  ELSE undefined
         ELSE IF n.children = <<>> /\ n.result_is_undefined
         THEN /\ gen_log.builds[k].status = "ok"
              /\ gen_log.builds[k].value = undefined
         ELSE /\ gen_log.builds[k].status = "err"
              /\ gen_log.builds[k].err = "FeatureNotYetImplemented"

\* A function was built whose body has a block that binds a name in its own
\* scope and returns the value of its last statement, with the stack back
\* at the depth the block found it, and a block marked result_is_undefined
\* that has statements and returns the undefined value.
C24_Witness ==
  /\ gen_result.status = "ok"
  /\ \E n \in {m \in UnitNodes : m.kind = "Block"} :
       \E k \in BlockBuilds(n) :
         /\ gen_log.builds[k].status = "ok"
         /\ gen_log.builds[k].scopes_entered # <<>>
         /\ ~n.result_is_undefined
         /\ n.children # <<>>
         /\ gen_log.builds[k].value = LastStatementValue(n, k)
         /\ gen_log.builds[k].value \notin {undefined, NoValue}
         /\ \E e \in (gen_log.builds[k].from[2] + 1)..gen_log.builds[k].to[2] :
              /\ gen_log.events[e].event = "bind"
              /\ gen_log.events[e].owner = Span(n)
  /\ \E n \in {m \in UnitNodes : m.kind = "Block"} :
       \E k \in BlockBuilds(n) :
         /\ gen_log.builds[k].status = "ok"
         /\ n.result_is_undefined
         /\ n.children # <<>>
         /\ gen_log.builds[k].value = undefined

\* The defining expression of a global is a block with a statement, which
\* fails, or has such a block and the empty undefined block as operands.
C24_WitnessGlobalBlock ==
  /\ gen_result.status = "err"
  /\ gen_result.err = "FeatureNotYetImplemented"
  /\ \E n \in {m \in UnitNodes : m.kind = "Block"} :
       \E k \in BlockBuilds(n) :
         /\ gen_log.builds[k].scopes_entered = <<>>
         /\ gen_log.builds[k].status = "err"
         /\ n.children # <<>>

(***************************************************************************)
(* Claims about the length of a token (SpecLex)                            *)
(***************************************************************************)
\* C25 as claimed: on a line that is not empty, for every dispatch class
\* the token length computed is at least 1 and at most the length of the
\* line, so that the call never aborts in the split into token text and
\* remainder; when the call returns a token, the token text followed by the
\* remainder is the line, the remainder is shorter than the line, and
\* char_length is the number of characters of the token text.
C25_TokenLengthInRange ==
  tk_result.status # "none" =>
    /\ token_dispatch(line_content).ok =>
         token_dispatch(line_content).len \in 1..Len(line_content)
    /\ ~(tk_result.status = "panic" /\ tk_result.err \in {"split_at", "expect"})
    /\ tk_result.status = "ok" =>
         /\ tk_result.text \o tk_result.rest = line_content
         /\ Len(tk_result.rest) < Len(line_content)
         /\ tk_result.char_length = Len(tk_result.text)

(***************************************************************************)
(* Claims about the conversions of the link-function wrapper (SpecGen)     *)
(***************************************************************************)
\* The width constant is written negative: the type is signed.
WrittenSigned(self) == self.value # U64Of(ExternalBits(self) \div 8)

Extend(self) == IF WrittenSigned(self) THEN "sign_extend" ELSE "zero_extend"

\* The external function the wrapper calls.
External == llvm_module.instructions[WrapperCall].operands[1].fn

\* C26: in the wrapper of a link function, with U the uniform width, an
\* argument for a parameter of external width P is sign-extended (signed
\* parameter) or zero-extended (unsigned parameter) to P bits when U < P,
\* passed as it is when U = P and truncated to P bits when U > P; the value
\* the external function returns, of width R, is truncated to U bits when
\* U < R, passed as it is when U = R, and sign-extended (signed return) or
\* zero-extended (unsigned return) to U bits when U > R; the external
\* function is declared under the name of the global, with the external
\* types, and the wrapper under that name prefixed with __bcz__link__.
C26_ThreeWayConversions ==
  LinkBuilt =>
    /\ \A p \in DOMAIN LinkParameters :
         \E P \in {ExternalBits(LinkParameters[p])} :
           CASE main_data.int_bit_width < P ->
                  ArgumentConverted(p, Extend(LinkParameters[p]), P)
             [] main_data.int_bit_width = P -> ArgumentPassed(p)
             [] main_data.int_bit_width > P ->
                  ArgumentConverted(p, "truncate", P)
    /\ \E R \in {ExternalBits(LinkReturn)} :
         CASE main_data.int_bit_width < R ->
                ResultConverted("truncate", main_data.int_bit_width)
           [] main_data.int_bit_width = R -> ResultPassed
           [] main_data.int_bit_width > R ->
                ResultConverted(Extend(LinkReturn), main_data.int_bit_width)
    /\ llvm_module.functions[Wrapper].name = "__bcz__link__" \o LastGlobal.name
    /\ llvm_module.functions[Wrapper].parameter_types =
         [p \in DOMAIN LinkParameters |-> main_data.int_bit_width]
    /\ llvm_module.functions[External] =
         [name |-> LastGlobal.name,
          parameter_types |->
            [p \in DOMAIN LinkParameters |-> ExternalBits(LinkParameters[p])],
          return_type |-> ExternalBits(LinkReturn), linkage |-> "DLLImport"]

\* A link function was built whose first parameter is signed and wider
\* than the uniform width, whose second parameter is narrower, and whose
\* return is wider: a sign-extension, a truncation, and a truncation of the
\* result.
C26_Witness ==
  /\ LinkBuilt
  /\ Len(LinkParameters) = 2
  /\ WrittenSigned(LinkParameters[1])
  /\ ArgumentConverted(1, "sign_extend", ExternalBits(LinkParameters[1]))
  /\ ArgumentConverted(2, "truncate", ExternalBits(LinkParameters[2]))
  /\ ResultConverted("truncate", main_data.int_bit_width)

\* A link function was built whose parameter is unsigned and wider than the
\* uniform width and whose return is unsigned and narrower: two
\* zero-extensions.
C26_WitnessUnsigned ==
  /\ LinkBuilt
  /\ Len(LinkParameters) = 1
  /\ ArgumentConverted(1, "zero_extend", ExternalBits(LinkParameters[1]))
  /\ ResultConverted("zero_extend", main_data.int_bit_width)

(***************************************************************************)
(* Claims about l-value and r-value operands in dependency analysis        *)
(* (SpecDeps)                                                              *)
(***************************************************************************)
\* The last call was on an operator node of the kind, not given the link
\* flag.
DepOperatorCalled(operator) ==
  /\ dep_result.status # "none"
  /\ dep_node.kind = "Operator"
  /\ dep_node.operator = operator
  /\ ~is_link_function

\* Every call the last call made on child i of its node was given the
\* l-value flag.
ChildAnalysedAs(i, l_value) ==
  \A c \in DepChildCalls :
    dep_result.calls[c].node = dep_node.children[i]
      => dep_result.calls[c].is_l_value = l_value

ChildAnalysed(i) ==
  \E c \in DepChildCalls : dep_result.calls[c].node = dep_node.children[i]

\* C27: the operands of a Normal operator are analysed as l-values when the
\* operation is Read and as r-values for every other operation,
\* TakeReference included; an Identifier operand of Read is added to the
\* local set and not to variable_dependencies; an Identifier operand of
\* another unary operation that is not local is added to
\* variable_dependencies and not to the local set; an Assignment analyses
\* its left operand as an l-value and then its right operand as an r-value.
C27_ReadOperandIsLValue ==
  /\ DepOperatorCalled("Normal") =>
       /\ \A i \in DOMAIN dep_node.children :
            ChildAnalysedAs(i, dep_node.operation = "Read")
       /\ dep_result.status = "ok" =>
            \A i \in DOMAIN dep_node.children : ChildAnalysed(i)
       /\ (Len(dep_node.children) = 1
             /\ dep_node.children[1].kind = "Identifier") =>
            /\ dep_result.status = "ok"
            /\ IF dep_node.operation = "Read"
               THEN /\ local_variables =
                         dep_before.local_variables
                           \cup {dep_node.children[1].name}
                    /\ variable_dependencies =
                         dep_before.variable_dependencies
               ELSE /\ local_variables = dep_before.local_variables
                    /\ variable_dependencies =
                         dep_before.variable_dependencies
                           \cup ({dep_node.children[1].name}
                                   \ dep_before.local_variables)
  /\ DepOperatorCalled("Assignment") =>
       /\ ChildAnalysedAs(1, TRUE)
       /\ ChildAnalysedAs(2, FALSE)
       /\ ChildAnalysed(1)
       /\ dep_result.status = "ok" => ChildAnalysed(2)

\* A call on TakeReference over an Identifier that is not local, which adds
\* the name to variable_dependencies and leaves the local set, which is
\* not empty, as it was.
C27_Witness ==
  /\ DepOperatorCalled("Normal")
  /\ dep_before.local_variables # {}
  /\ dep_node.operation = "TakeReference"
  /\ dep_node.children[1].kind = "Identifier"
  /\ dep_node.children[1].name \notin dep_before.local_variables
  /\ dep_node.children[1].name \in variable_dependencies
  /\ dep_node.children[1].name \notin dep_before.variable_dependencies
  /\ local_variables = dep_before.local_variables

\* A call on Read over an Identifier that is not local, which makes the
\* name local and adds no dependency.
C27_WitnessRead ==
  /\ DepOperatorCalled("Normal")
  /\ dep_node.operation = "Read"
  /\ dep_node.children[1].kind = "Identifier"
  /\ dep_node.children[1].name \notin dep_before.local_variables
  /\ dep_node.children[1].name \in local_variables
  /\ variable_dependencies = dep_before.variable_dependencies

(***************************************************************************)
(* Claims about Metadata nodes in code generation (SpecGen)                *)
(***************************************************************************)
\* The defining expression of a global is accepted by the three passes that
\* run before code generation, and is as they leave it.
AcceptedByPasses(i) ==
  /\ separate_globals(gen_unit[i].node, EmptyTable, FALSE).ok
  /\ separate_globals(gen_unit[i].node, EmptyTable, FALSE).node = gen_unit[i].node
  /\ GlobalDependencies(i).ok
  /\ const_evaluate(gen_unit[i].node, main_data, FALSE).ok
  /\ const_evaluate(gen_unit[i].node, main_data, FALSE).node = gen_unit[i].node

\* The Metadata nodes of a tree whose wrapped node is not a function.
MetadataOverNonFunction(node) ==
  {m \in Subtrees(node) : m.kind = "Metadata" /\ ~WrapsFunction(m)}

\* C28 as claimed: a defining expression that separation, dependency
\* analysis and constant folding accept has no Metadata node over a node
\* that is not a function, and code generation does not abort on it: it
\* returns a value or an error.
C28_MetadataArmUnreachable ==
  (gen_built > 0 /\ AcceptedByPasses(gen_built)) =>
    /\ MetadataOverNonFunction(gen_unit[gen_built].node) = {}
    /\ gen_result.status \in {"ok", "err"}

(***************************************************************************)
(* Claims about folding and type widths together (SpecTypes)               *)
(***************************************************************************)
\* The function definition as it was written and as it is after folding.
WrittenDefinition == Innermost(call_args.written)

FoldedDefinition == Innermost(call_self)

\* The node is a byte width, or the negation of one, as written.
WrittenWidth(n) == n.kind = "Constant" /\ n.value[1] \in TypeWidths

WrittenNegatedWidth(n) ==
  /\ NegatedConstant(n)
  /\ n.children[1].value[1] \in TypeWidths

\* C29: after const_evaluate on a link function, every parameter and the
\* body are folded: where Normal(IntegerNegate) over Constant(w) was written
\* with w in {1, 2, 4, 8, 16}, the node is a Constant on which
\* type_from_width returns the (8*w)-bit type with signed = true, and where
\* Constant(w) was written the node is unchanged and type_from_width returns
\* the (8*w)-bit type with signed = false.
C29_FoldedTypes ==
  call_return.status = "read" =>
    \A i \in DOMAIN WrittenDefinition.children :
      /\ WrittenNegatedWidth(WrittenDefinition.children[i]) =>
           /\ FoldedDefinition.children[i].kind = "Constant"
           /\ call_return.outcome[i].ok
           /\ call_return.outcome[i].bits =
                8 * WrittenDefinition.children[i].children[1].value[1]
           /\ call_return.outcome[i].is_signed
      /\ WrittenWidth(WrittenDefinition.children[i]) =>
           /\ FoldedDefinition.children[i] = WrittenDefinition.children[i]
           /\ call_return.outcome[i].ok
           /\ call_return.outcome[i].bits =
                8 * WrittenDefinition.children[i].value[1]
           /\ ~call_return.outcome[i].is_signed

\* The types of a link function under an EntryPoint wrapper were read, with
\* a negated width as a parameter, a plain width as another, and a negated
\* width of 16 bytes as the body.
C29_Witness ==
  /\ call_return.status = "read"
  /\ call_args.written.metadata = "EntryPoint"
  /\ Len(WrittenDefinition.children) = 3
  /\ WrittenNegatedWidth(WrittenDefinition.children[1])
  /\ WrittenWidth(WrittenDefinition.children[2])
  /\ WrittenNegatedWidth(WrittenDefinition.children[3])
  /\ call_return.outcome[3].ok
  /\ call_return.outcome[3].bits = 128
  /\ call_return.outcome[3].is_signed
  /\ call_return.outcome[1].is_signed
  /\ ~call_return.outcome[2].is_signed

====
